---- MODULE Spec2Model ----
(***************************************************************************)
(* Rules core of the Azul practice engine (rust/engine/src): the game      *)
(* state, legal-action enumeration, action application and end-of-round    *)
(* resolution, as a state machine over the state value the host holds.     *)
(***************************************************************************)
EXTENDS Integers, Sequences, FiniteSets, TLC

VARIABLES
    state,          \* the State value the host currently holds
    before,         \* the State handed to the last call, as it was on entry
    input,          \* that same State object as it is after the call returned
    last,           \* the last call: operation, action, result code
    calls,          \* number of API calls made so far
    center_takes,   \* successful Center takes since the round started
    listed,         \* the last list_legal_actions call: seat and returned Vec
    returned        \* the last call of another function: its arguments and result

vars == <<state, before, input, last, calls, center_takes, listed, returned>>

----------------------------------------------------------------------------
(* model/types.rs, rules/constants.rs *)

Colors == {"Blue", "Yellow", "Red", "Black", "White"}

ALL_COLORS == <<"Blue", "Yellow", "Red", "Black", "White">>

NoColor == "None"

FACTORY_COUNT_2P == 5
TILES_PER_FACTORY == 4
TILES_PER_COLOR == 20
TOTAL_TILES == 100
FLOOR_LINE_SLOTS == 7
PATTERN_LINE_COUNT == 5

FLOOR_PENALTIES == <<-1, -1, -2, -2, -2, -3, -3>>

Rows == 0 .. (PATTERN_LINE_COUNT - 1)
Cols == 0 .. 4
Seats == {0, 1}
FactoryIds == 0 .. (FACTORY_COUNT_2P - 1)

Min(a, b) == IF a < b THEN a ELSE b
Max(a, b) == IF a > b THEN a ELSE b

----------------------------------------------------------------------------
(* TileMultiset = HashMap<TileColor, u8>: a map whose key set is a subset  *)
(* of the colours; a colour may be absent or present with any count.       *)

EmptyMultiset == [c \in {} |-> 0]

\* HashMap::get(..).unwrap_or(&0)
Get(m, c) == IF c \in DOMAIN m THEN m[c] ELSE 0

\* HashMap::remove
Remove(m, c) == [x \in (DOMAIN m) \ {c} |-> m[x]]

\* *map.entry(c).or_insert(0) += n
AddTiles(m, c, n) == [x \in (DOMAIN m) \cup {c} |-> IF x = c THEN Get(m, c) + n ELSE m[x]]

RECURSIVE SumOver(_, _)
SumOver(m, keys) ==
    IF keys = {} THEN 0
    ELSE LET k == CHOOSE x \in keys : TRUE
         IN  m[k] + SumOver(m, keys \ {k})

\* multiset.values().sum()
count_tiles_in_multiset(m) == SumOver(m, DOMAIN m)

\* HashMap::is_empty
IsEmptyMap(m) == DOMAIN m = {}

----------------------------------------------------------------------------
(* rules/wall_utils.rs *)

WallColumnTable ==
    [r \in Rows |->
        CASE r = 0 -> [Blue |-> 0, Yellow |-> 1, Red |-> 2, Black |-> 3, White |-> 4]
          [] r = 1 -> [White |-> 0, Blue |-> 1, Yellow |-> 2, Red |-> 3, Black |-> 4]
          [] r = 2 -> [Black |-> 0, White |-> 1, Blue |-> 2, Yellow |-> 3, Red |-> 4]
          [] r = 3 -> [Red |-> 0, Black |-> 1, White |-> 2, Blue |-> 3, Yellow |-> 4]
          [] r = 4 -> [Yellow |-> 0, Red |-> 1, Black |-> 2, White |-> 3, Blue |-> 4]]

get_wall_column_for_color(row, color) == WallColumnTable[row][color]

WallColorTable ==
    [r \in Rows |->
        CASE r = 0 -> <<"Blue", "Yellow", "Red", "Black", "White">>
          [] r = 1 -> <<"White", "Blue", "Yellow", "Red", "Black">>
          [] r = 2 -> <<"Black", "White", "Blue", "Yellow", "Red">>
          [] r = 3 -> <<"Red", "Black", "White", "Blue", "Yellow">>
          [] r = 4 -> <<"Yellow", "Red", "Black", "White", "Blue">>]

\* get_wall_color with the rows rotated the other way
get_wall_color_rotated_left(row, col) == WallColorTable[0][((col + row) % 5) + 1]

get_wall_color(row, col) == WallColorTable[row][col + 1]

----------------------------------------------------------------------------
(* model/player.rs, model/state.rs *)

\* PatternLine::new
NewPatternLine(row_index) ==
    [capacity |-> row_index + 1, color |-> NoColor, count_filled |-> 0]

EmptyWall == [r \in Rows |-> [c \in Cols |-> FALSE]]

\* PlayerBoard::new
NewPlayerBoard ==
    [score |-> 0,
     pattern_lines |-> [r \in Rows |-> NewPatternLine(r)],
     wall |-> EmptyWall,
     floor_line |-> [tiles |-> <<>>, has_first_player_token |-> FALSE]]

\* State::new_test_state
new_test_state ==
    [active_player_id |-> 0,
     round_number |-> 1,
     bag |-> EmptyMultiset,
     lid |-> EmptyMultiset,
     factories |-> [i \in FactoryIds |-> EmptyMultiset],
     center |-> [tiles |-> EmptyMultiset, has_first_player_token |-> TRUE],
     players |-> [p \in Seats |-> NewPlayerBoard]]

----------------------------------------------------------------------------
(* model/action.rs *)

Factory(i) == [kind |-> "Factory", idx |-> i]
Center == [kind |-> "Center", idx |-> 0]
PatternLine(r) == [kind |-> "PatternLine", row |-> r]
Floor == [kind |-> "Floor", row |-> 0]

DraftAction(s, c, d) == [source |-> s, color |-> c, destination |-> d]

----------------------------------------------------------------------------
(* rules/legality.rs *)

\* can_place_in_pattern_line without Check 3, the wall conflict
can_place_in_pattern_line_no_wall(player, row, color) ==
    LET pattern_line == player.pattern_lines[row]
    IN  IF pattern_line.count_filled = pattern_line.capacity THEN FALSE
        ELSE IF /\ pattern_line.count_filled > 0
                /\ pattern_line.color # NoColor
                /\ pattern_line.color # color THEN FALSE
        ELSE TRUE

can_place_in_pattern_line(player, row, color) ==
    LET pattern_line == player.pattern_lines[row]
    IN  IF pattern_line.count_filled = pattern_line.capacity THEN FALSE
        ELSE IF /\ pattern_line.count_filled > 0
                /\ pattern_line.color # NoColor
                /\ pattern_line.color # color THEN FALSE
        ELSE IF player.wall[row][get_wall_column_for_color(row, color)] THEN FALSE
        ELSE TRUE

\* The entries of a map in the order its iteration yields them; `order` is
\* the order in which this run of the program enumerates the colours.
MapEntries(m, order) == SelectSeq(order, LAMBDA c : c \in DOMAIN m)

\* The actions pushed for one (source, colour) pair: rows 0..4, then Floor.
RECURSIVE RowActions(_, _, _, _)
RowActions(player, source, color, row) ==
    IF row >= 5 THEN <<DraftAction(source, color, Floor)>>
    ELSE (IF can_place_in_pattern_line(player, row, color)
          THEN <<DraftAction(source, color, PatternLine(row))>>
          ELSE <<>>)
         \o RowActions(player, source, color, row + 1)

RECURSIVE SourceActions(_, _, _, _)
SourceActions(player, source, tiles, entries) ==
    IF entries = <<>> THEN <<>>
    ELSE (IF tiles[Head(entries)] > 0
          THEN RowActions(player, source, Head(entries), 0)
          ELSE <<>>)
         \o SourceActions(player, source, tiles, Tail(entries))

RECURSIVE FactoryActions(_, _, _, _)
FactoryActions(s, player, order, factory_idx) ==
    IF factory_idx >= FACTORY_COUNT_2P THEN <<>>
    ELSE SourceActions(player, Factory(factory_idx), s.factories[factory_idx],
                       MapEntries(s.factories[factory_idx], order))
         \o FactoryActions(s, player, order, factory_idx + 1)

\* list_legal_actions that offers nothing from a centre holding the token
list_legal_actions_token_blocks(s, player_id, order) ==
    LET player == s.players[player_id]
    IN  FactoryActions(s, player, order, 0)
        \o (IF s.center.has_first_player_token THEN <<>>
            ELSE SourceActions(player, Center, s.center.tiles,
                               MapEntries(s.center.tiles, order)))

list_legal_actions(s, player_id, order) ==
    LET player == s.players[player_id]
    IN  FactoryActions(s, player, order, 0)
        \o SourceActions(player, Center, s.center.tiles,
                         MapEntries(s.center.tiles, order))

----------------------------------------------------------------------------
(* rules/invariants.rs *)

RECURSIVE WallCount(_, _)
WallCount(wall, k) ==
    IF k >= 25 THEN 0
    ELSE (IF wall[k \div 5][k % 5] THEN 1 ELSE 0) + WallCount(wall, k + 1)

RECURSIVE FilledCount(_, _)
FilledCount(pattern_lines, row) ==
    IF row >= 5 THEN 0
    ELSE pattern_lines[row].count_filled + FilledCount(pattern_lines, row + 1)

RECURSIVE FactoriesCount(_, _)
FactoriesCount(factories, i) ==
    IF i >= FACTORY_COUNT_2P THEN 0
    ELSE count_tiles_in_multiset(factories[i]) + FactoriesCount(factories, i + 1)

PlayerTiles(player) ==
    FilledCount(player.pattern_lines, 0) + WallCount(player.wall, 0)
        + Len(player.floor_line.tiles)

count_total_tiles(s) ==
    count_tiles_in_multiset(s.bag) + count_tiles_in_multiset(s.lid)
        + FactoriesCount(s.factories, 0) + count_tiles_in_multiset(s.center.tiles)
        + PlayerTiles(s.players[0]) + PlayerTiles(s.players[1])

\* Ok(()) exactly when the total is TOTAL_TILES
check_tile_conservation(s) == count_total_tiles(s) = TOTAL_TILES

----------------------------------------------------------------------------
(* rules/apply.rs *)

Ok(s) == [code |-> "OK", new_state |-> s]
Err(code) == [code |-> code]
Panic == [code |-> "PANIC"]

\* Step 1 of apply_action: the tile count of the source, or the error
source_tile_count(s, action) ==
    IF action.source.kind = "Factory"
    THEN IF action.source.idx >= FACTORY_COUNT_2P THEN -1
         ELSE Get(s.factories[action.source.idx], action.color)
    ELSE Get(s.center.tiles, action.color)

\* placement_error that looks at the wall before the colour of the line
placement_error_wall_first(player, row, color) ==
    LET pattern_line == player.pattern_lines[row]
    IN  IF pattern_line.count_filled = pattern_line.capacity
        THEN "PATTERN_LINE_COMPLETE"
        ELSE IF player.wall[row][get_wall_column_for_color(row, color)]
        THEN "WALL_CONFLICT"
        ELSE IF pattern_line.count_filled > 0 /\ pattern_line.color # color
        THEN (IF pattern_line.color = NoColor THEN "PANIC" ELSE "COLOR_MISMATCH")
        ELSE "OK"

\* apply.rs:74-89, "Determine specific reason": the error for a placement
\* that can_place_in_pattern_line refused; "PANIC" is Option::unwrap on a
\* line that holds tiles without a colour, "OK" is falling through
placement_error(player, row, color) ==
    LET pattern_line == player.pattern_lines[row]
    IN  IF pattern_line.count_filled = pattern_line.capacity
        THEN "PATTERN_LINE_COMPLETE"
        ELSE IF pattern_line.count_filled > 0 /\ pattern_line.color # color
        THEN (IF pattern_line.color = NoColor THEN "PANIC" ELSE "COLOR_MISMATCH")
        ELSE IF player.wall[row][get_wall_column_for_color(row, color)]
        THEN "WALL_CONFLICT"
        ELSE "OK"

\* validate_action that asks only whether the line is full or holds another
\* colour, never the wall
validate_action_ignores_wall(s, action) ==
    LET player == s.players[s.active_player_id]
        tile_count == source_tile_count(s, action)
        row == action.destination.row
    IN  IF tile_count = -1 THEN "INVALID_SOURCE"
        ELSE IF tile_count = 0 THEN "SOURCE_EMPTY"
        ELSE IF action.destination.kind = "Floor" THEN "OK"
        ELSE IF row >= 5 THEN "INVALID_DESTINATION"
        ELSE LET pattern_line == player.pattern_lines[row]
             IN  IF pattern_line.count_filled = pattern_line.capacity
                 THEN "PATTERN_LINE_COMPLETE"
                 ELSE IF pattern_line.count_filled > 0 /\ pattern_line.color # action.color
                 THEN (IF pattern_line.color = NoColor THEN "PANIC" ELSE "COLOR_MISMATCH")
                 ELSE "OK"

\* Step 1 of apply_action: "OK", the error code, or "PANIC"
validate_action(s, action) ==
    LET player == s.players[s.active_player_id]
        tile_count == source_tile_count(s, action)
        row == action.destination.row
    IN  IF tile_count = -1 THEN "INVALID_SOURCE"
        ELSE IF tile_count = 0 THEN "SOURCE_EMPTY"
        ELSE IF action.destination.kind = "Floor" THEN "OK"
        ELSE IF row >= 5 THEN "INVALID_DESTINATION"
        ELSE IF can_place_in_pattern_line(player, row, action.color) THEN "OK"
        ELSE placement_error(player, row, action.color)

\* Step 3: remove the colour from the source
remove_from_source(s, action) ==
    IF action.source.kind = "Factory"
    THEN [s EXCEPT !.factories[action.source.idx] = Remove(@, action.color)]
    ELSE [s EXCEPT !.center.tiles = Remove(@, action.color)]

RECURSIVE SpillInto(_, _, _)
SpillInto(center_tiles, factory, keys) ==
    IF keys = {} THEN center_tiles
    ELSE LET k == CHOOSE x \in keys : TRUE
         IN  SpillInto(AddTiles(center_tiles, k, factory[k]), factory, keys \ {k})

\* move_remnants_to_center that overwrites the centre's count of a spilled
\* colour instead of adding to it
move_remnants_to_center_overwrite(s, action) ==
    IF action.source.kind = "Factory"
    THEN LET factory == s.factories[action.source.idx]
         IN  [s EXCEPT !.center.tiles =
                           [c \in DOMAIN @ \cup DOMAIN factory |->
                               IF c \in DOMAIN factory THEN factory[c] ELSE @[c]],
                       !.factories[action.source.idx] = EmptyMultiset]
    ELSE s

\* Step 4: factory remnants go to the centre, the factory is cleared
move_remnants_to_center(s, action) ==
    IF action.source.kind = "Factory"
    THEN LET factory == s.factories[action.source.idx]
         IN  [s EXCEPT !.center.tiles = SpillInto(@, factory, DOMAIN factory),
                       !.factories[action.source.idx] = EmptyMultiset]
    ELSE s

\* transfer_token that hands the token over on every Center take
transfer_token_every_center_take(s, action) ==
    IF action.source = Center
    THEN [s EXCEPT !.center.has_first_player_token = FALSE,
                   !.players[s.active_player_id].floor_line.has_first_player_token = TRUE]
    ELSE s

\* transfer_token that leaves the centre's flag set
transfer_token_copies(s, action) ==
    IF action.source = Center /\ s.center.has_first_player_token
    THEN [s EXCEPT !.players[s.active_player_id].floor_line.has_first_player_token = TRUE]
    ELSE s

\* Step 5: the first-player token
transfer_token(s, action) ==
    IF action.source = Center /\ s.center.has_first_player_token
    THEN [s EXCEPT !.center.has_first_player_token = FALSE,
                   !.players[s.active_player_id].floor_line.has_first_player_token = TRUE]
    ELSE s

\* PushTiles that stops at the seven penalty slots of the floor line
PushTiles_capped(tiles, color, n) ==
    SubSeq(tiles \o [i \in 1 .. n |-> color], 1, Min(FLOOR_LINE_SLOTS, Len(tiles) + Max(0, n)))

\* n times floor_line.tiles.push(color)
PushTiles(tiles, color, n) == tiles \o [i \in 1 .. n |-> color]

\* Step 6: place the tiles, overflow to the floor line
place_tiles(s, action, tile_count) ==
    LET p == s.active_player_id
    IN  IF action.destination.kind = "PatternLine"
        THEN LET row == action.destination.row
                 pattern_line == s.players[p].pattern_lines[row]
                 space_available == pattern_line.capacity - pattern_line.count_filled
                 tiles_to_place == Min(tile_count, space_available)
                 overflow == tile_count - tiles_to_place
                 filled == pattern_line.count_filled + tiles_to_place
             IN  [s EXCEPT
                    !.players[p].pattern_lines[row] =
                        [@ EXCEPT !.count_filled = filled,
                                  !.color = IF filled > 0 THEN action.color ELSE @],
                    !.players[p].floor_line.tiles = PushTiles(@, action.color, overflow)]
        ELSE [s EXCEPT !.players[p].floor_line.tiles = PushTiles(@, action.color, tile_count)]

\* Step 7
\* toggle_active_player that always hands the turn to seat 1
toggle_active_player_to_seat1(s) == [s EXCEPT !.active_player_id = 1]

toggle_active_player(s) == [s EXCEPT !.active_player_id = 1 - @]

\* apply_action; debug_assertions tells whether the build checks tile
\* conservation on the new state (Step 8)
apply_action(s, action, debug_assertions) ==
    LET verdict == validate_action(s, action)
    IN  IF verdict # "OK" THEN Err(verdict)
        ELSE LET tile_count == source_tile_count(s, action)
                 s3 == remove_from_source(s, action)
                 s4 == move_remnants_to_center(s3, action)
                 s5 == transfer_token(s4, action)
                 s6 == place_tiles(s5, action, tile_count)
                 s7 == toggle_active_player(s6)
             IN  IF debug_assertions /\ ~check_tile_conservation(s7)
                 THEN Panic
                 ELSE Ok(s7)

----------------------------------------------------------------------------
(* i32 arithmetic of PlayerBoard::score: an overflowing addition aborts a  *)
(* build with overflow checks and wraps in a build without them.           *)

\* State::round_number is a u8
U8Max == 2 ^ 8 - 1

I32Max == (2 ^ 30 - 1) * 2 + 1
I32Min == (-I32Max) - 1

\* whether a + b leaves the i32 range
OverflowsI32(a, b) ==
    IF b >= 0 THEN a > I32Max - b ELSE a < I32Min - b

\* a + b in two's-complement wrapping arithmetic
WrappingAddI32(a, b) ==
    IF ~OverflowsI32(a, b) THEN a + b
    ELSE IF b >= 0 THEN I32Min + ((b - (I32Max - a)) - 1)
    ELSE I32Max - (((I32Min - b) - a) - 1)

----------------------------------------------------------------------------
(* rules/scoring.rs *)

\* the number of consecutive true cells met from (row + dr, col + dc) on
RECURSIVE CountRun(_, _, _, _, _)
CountRun(wall, row, col, dr, dc) ==
    LET r == row + dr
        c == col + dc
    IN  IF r < 0 \/ r > 4 \/ c < 0 \/ c > 4 THEN 0
        ELSE IF wall[r][c] THEN 1 + CountRun(wall, r, c, dr, dc)
        ELSE 0

\* calculate_wall_tile_score that leaves the column out
calculate_wall_tile_score_row_only(wall, row, col) ==
    1 + CountRun(wall, row, col, 0, -1) + CountRun(wall, row, col, 0, 1)

\* calculate_wall_tile_score without the case of the isolated tile
calculate_wall_tile_score_sums_both(wall, row, col) ==
    (1 + CountRun(wall, row, col, 0, -1) + CountRun(wall, row, col, 0, 1))
        + (1 + CountRun(wall, row, col, -1, 0) + CountRun(wall, row, col, 1, 0))

calculate_wall_tile_score(wall, row, col) ==
    LET h_count == 1 + CountRun(wall, row, col, 0, -1) + CountRun(wall, row, col, 0, 1)
        v_count == 1 + CountRun(wall, row, col, -1, 0) + CountRun(wall, row, col, 1, 0)
    IN  IF h_count = 1 /\ v_count = 1 THEN 1
        ELSE (IF h_count > 1 THEN h_count ELSE 0) + (IF v_count > 1 THEN v_count ELSE 0)

RECURSIVE PenaltySlots(_, _)
PenaltySlots(slot, tiles_to_count) ==
    IF tiles_to_count <= 0 THEN 0
    ELSE FLOOR_PENALTIES[slot + 1] + PenaltySlots(slot + 1, tiles_to_count - 1)

calculate_floor_penalty(floor_line) ==
    LET slot == IF floor_line.has_first_player_token THEN 1 ELSE 0
        token_penalty == IF floor_line.has_first_player_token THEN FLOOR_PENALTIES[1] ELSE 0
        tiles_to_count == Min(Len(floor_line.tiles), FLOOR_LINE_SLOTS - slot)
    IN  token_penalty + PenaltySlots(slot, tiles_to_count)

----------------------------------------------------------------------------
(* rules/feedback.rs *)

\* in hundredths of a point
GRADE_THRESHOLDS == [excellent_max |-> 25, good_max |-> 100, okay_max |-> 250]

\* compute_grade with the boundary values in the worse grade
compute_grade_strict(delta_ev) ==
    LET abs_delta == IF delta_ev < 0 THEN -delta_ev ELSE delta_ev
    IN  IF abs_delta < GRADE_THRESHOLDS.excellent_max THEN "Excellent"
        ELSE IF abs_delta < GRADE_THRESHOLDS.good_max THEN "Good"
        ELSE IF abs_delta < GRADE_THRESHOLDS.okay_max THEN "Okay"
        ELSE "Miss"

\* delta_ev in hundredths of a point
compute_grade(delta_ev) ==
    LET abs_delta == IF delta_ev < 0 THEN -delta_ev ELSE delta_ev
    IN  IF abs_delta <= GRADE_THRESHOLDS.excellent_max THEN "Excellent"
        ELSE IF abs_delta <= GRADE_THRESHOLDS.good_max THEN "Good"
        ELSE IF abs_delta <= GRADE_THRESHOLDS.okay_max THEN "Okay"
        ELSE "Miss"

\* calculate_floor_penalty_for_player that gives the token no slot
calculate_floor_penalty_for_player_tiles_only(player) ==
    PenaltySlots(0, Min(Len(player.floor_line.tiles), 7))

calculate_floor_penalty_for_player(player) ==
    LET floor_count == Len(player.floor_line.tiles)
        has_token == player.floor_line.has_first_player_token
        total_slots == IF has_token THEN Min(floor_count + 1, 7) ELSE Min(floor_count, 7)
    IN  PenaltySlots(0, total_slots)

----------------------------------------------------------------------------

\* std::cmp::max(0, player.score + penalty), on the computed sum
clamp_score(sum) == Max(0, sum)

\* [panic, state]: the addition score + penalty may overflow
apply_floor_penalties(s, overflow_checks) ==
    LET penalty(p) == calculate_floor_penalty(s.players[p].floor_line)
        new_score(p) == clamp_score(WrappingAddI32(s.players[p].score, penalty(p)))
    IN  [panic |-> overflow_checks
                     /\ (\E p \in Seats : OverflowsI32(s.players[p].score, penalty(p))),
         state |-> [s EXCEPT !.players[0].score = new_score(0),
                             !.players[1].score = new_score(1)]]

----------------------------------------------------------------------------
(* rules/resolution.rs *)

\* reset_line that leaves the colour on the line
reset_line_keeps_color(pattern_line) ==
    [pattern_line EXCEPT !.count_filled = 0]

\* pattern_line.count_filled = 0; pattern_line.color = None
reset_line(pattern_line) ==
    [pattern_line EXCEPT !.count_filled = 0, !.color = NoColor]

\* one iteration of the loops of resolve_pattern_lines, on [panic, state]
resolve_one_line(acc, player_idx, row, overflow_checks) ==
    LET s == acc.state
        player == s.players[player_idx]
        pattern_line == player.pattern_lines[row]
        color == pattern_line.color
        col == get_wall_column_for_color(row, color)
        reset == reset_line(pattern_line)
    IN  IF acc.panic \/ pattern_line.count_filled # pattern_line.capacity THEN acc
        ELSE IF color = NoColor THEN [acc EXCEPT !.panic = TRUE]
        ELSE IF player.wall[row][col]
        THEN [acc EXCEPT !.state.players[player_idx].pattern_lines[row] = reset]
        ELSE LET wall == [player.wall EXCEPT ![row][col] = TRUE]
                 points == calculate_wall_tile_score(wall, row, col)
                 tiles_to_discard == pattern_line.capacity - 1
             IN  [panic |-> overflow_checks /\ OverflowsI32(player.score, points),
                  state |-> [s EXCEPT
                      !.players[player_idx].wall = wall,
                      !.players[player_idx].score = WrappingAddI32(@, points),
                      !.lid = IF tiles_to_discard > 0
                              THEN AddTiles(@, color, tiles_to_discard) ELSE @,
                      !.players[player_idx].pattern_lines[row] = reset]]

RECURSIVE ResolveLinesFrom(_, _, _)
ResolveLinesFrom(acc, k, overflow_checks) ==
    IF k >= 2 * PATTERN_LINE_COUNT THEN acc
    ELSE ResolveLinesFrom(
            resolve_one_line(acc, k \div PATTERN_LINE_COUNT, k % PATTERN_LINE_COUNT,
                             overflow_checks),
            k + 1, overflow_checks)

resolve_pattern_lines(s, overflow_checks) ==
    ResolveLinesFrom([panic |-> FALSE, state |-> s], 0, overflow_checks)

----------------------------------------------------------------------------
(* rules/rng.rs, rules/refill.rs *)

\* The generator behind Rng::gen_range is the rand crate's (StdRng, or the
\* thread's generator); a fixed stream per seed stands for its output, and
\* seeds a multiple of 1000 apart start different streams.
create_rng_from_seed(seed) == seed * 11 + (seed \div 1000) * 7

NextRandom(rng) == (rng + 6) % 100

\* rng.gen_range(0..total): [value, rng]
gen_range(rng, total) == [value |-> NextRandom(rng) % total, rng |-> NextRandom(rng)]

\* a pick that ignores the number drawn: the first colour the bag holds
PickColor_first_held(bag, target, i) ==
    IF \A k \in i .. Len(ALL_COLORS) : Get(bag, ALL_COLORS[k]) = 0 THEN NoColor
    ELSE ALL_COLORS[CHOOSE k \in i .. Len(ALL_COLORS) :
            /\ Get(bag, ALL_COLORS[k]) > 0
            /\ \A j \in i .. k - 1 : Get(bag, ALL_COLORS[j]) = 0]

\* the colour whose cumulative range, in the order of ALL_COLORS, holds target
RECURSIVE PickColor(_, _, _)
PickColor(bag, target, i) ==
    IF i > Len(ALL_COLORS) THEN NoColor
    ELSE LET count == Get(bag, ALL_COLORS[i])
         IN  IF count = 0 THEN PickColor(bag, target, i + 1)
             ELSE IF target < count THEN ALL_COLORS[i]
             ELSE PickColor(bag, target - count, i + 1)

\* decrement the chosen colour, dropping its key at zero
TakeOne(bag, color) ==
    IF bag[color] - 1 = 0 THEN Remove(bag, color)
    ELSE [bag EXCEPT ![color] = @ - 1]

\* [color, bag, rng]; color is NoColor when the bag is empty
draw_random_tile_from_bag(bag, rng) ==
    LET total == count_tiles_in_multiset(bag)
    IN  IF total = 0 THEN [color |-> NoColor, bag |-> bag, rng |-> rng]
        ELSE LET g == gen_range(rng, total)
                 color == PickColor(bag, g.value, 1)
             IN  IF color = NoColor THEN [color |-> NoColor, bag |-> bag, rng |-> g.rng]
                 ELSE [color |-> color, bag |-> TakeOne(bag, color), rng |-> g.rng]

\* lid.drain() into the bag
RECURSIVE DrainInto(_, _, _)
DrainInto(bag, lid, keys) ==
    IF keys = {} THEN bag
    ELSE LET k == CHOOSE x \in keys : TRUE
         IN  DrainInto(AddTiles(bag, k, lid[k]), lid, keys \ {k})

\* the fill loops: factory_idx in 0..5, slot in 0..4, break on an empty bag
RECURSIVE FillFactories(_, _, _, _)
FillFactories(s, rng, factory_idx, slot) ==
    IF factory_idx >= FACTORY_COUNT_2P THEN s
    ELSE IF slot >= TILES_PER_FACTORY THEN FillFactories(s, rng, factory_idx + 1, 0)
    ELSE LET d == draw_random_tile_from_bag(s.bag, rng)
         IN  IF d.color = NoColor THEN FillFactories(s, d.rng, factory_idx + 1, 0)
             ELSE FillFactories(
                    [s EXCEPT !.bag = d.bag,
                              !.factories[factory_idx] = AddTiles(@, d.color, 1)],
                    d.rng, factory_idx, slot + 1)

\* refill_factories_with_rng that moves the lid into the bag on every refill
refill_factories_with_rng_always_drains(s, rng) ==
    LET cleared == [s EXCEPT !.factories = [i \in FactoryIds |-> EmptyMultiset],
                             !.center.tiles = EmptyMultiset]
        topped == [cleared EXCEPT !.bag = DrainInto(@, cleared.lid, DOMAIN cleared.lid),
                                  !.lid = EmptyMultiset]
    IN  FillFactories(topped, rng, 0, 0)

refill_factories_with_rng(s, rng) ==
    LET cleared == [s EXCEPT !.factories = [i \in FactoryIds |-> EmptyMultiset],
                             !.center.tiles = EmptyMultiset]
        bag_count == count_tiles_in_multiset(cleared.bag)
        total_needed == FACTORY_COUNT_2P * TILES_PER_FACTORY
        topped == IF bag_count < total_needed
                  THEN [cleared EXCEPT !.bag = DrainInto(@, cleared.lid, DOMAIN cleared.lid),
                                       !.lid = EmptyMultiset]
                  ELSE cleared
    IN  FillFactories(topped, rng, 0, 0)

----------------------------------------------------------------------------
(* rules/end_of_round.rs *)

check_game_end(s) ==
    \E p \in Seats : \E r \in Rows : \A c \in Cols : s.players[p].wall[r][c]

\* DiscardToLid that drops the last tile of the floor line
DiscardToLid_drops_last(lid, tiles) ==
    [c \in DOMAIN lid \cup {tiles[i] : i \in 1 .. Len(tiles) - 1} |->
        Get(lid, c) + Cardinality({i \in 1 .. Len(tiles) - 1 : tiles[i] = c})]

RECURSIVE DiscardToLid(_, _)
DiscardToLid(lid, tiles) ==
    IF tiles = <<>> THEN lid
    ELSE DiscardToLid(AddTiles(lid, Head(tiles), 1), Tail(tiles))

\* cleanup_floor_lines that looks for the token at seat 1 first
cleanup_floor_lines_seat1_first(s) ==
    LET next_first_player ==
            IF s.players[1].floor_line.has_first_player_token THEN 1
            ELSE IF s.players[0].floor_line.has_first_player_token THEN 0
            ELSE s.active_player_id
        cleared_floor == [tiles |-> <<>>, has_first_player_token |-> FALSE]
    IN  [s EXCEPT !.lid = DiscardToLid(DiscardToLid(@, s.players[0].floor_line.tiles),
                                       s.players[1].floor_line.tiles),
                  !.players[0].floor_line = cleared_floor,
                  !.players[1].floor_line = cleared_floor,
                  !.center.has_first_player_token = TRUE,
                  !.active_player_id = next_first_player]

\* Phase 2: next first player, floor lines to the lid, token to the centre
cleanup_floor_lines(s) ==
    LET next_first_player ==
            IF s.players[0].floor_line.has_first_player_token THEN 0
            ELSE IF s.players[1].floor_line.has_first_player_token THEN 1
            ELSE s.active_player_id
        cleared_floor == [tiles |-> <<>>, has_first_player_token |-> FALSE]
    IN  [s EXCEPT !.lid = DiscardToLid(DiscardToLid(@, s.players[0].floor_line.tiles),
                                       s.players[1].floor_line.tiles),
                  !.players[0].floor_line = cleared_floor,
                  !.players[1].floor_line = cleared_floor,
                  !.center.has_first_player_token = TRUE,
                  !.active_player_id = next_first_player]

\* new_state.round_number += 1 on a u8, in a build without overflow checks
next_round(s) == [s EXCEPT !.round_number = (@ + 1) % (U8Max + 1)]

\* resolve_end_of_round; rng is the generator refill_factories obtains from
\* the thread, debug_build tells whether arithmetic overflow aborts
resolve_end_of_round(s, rng, debug_build) ==
    LET r1 == resolve_pattern_lines(s, debug_build)
        r2 == apply_floor_penalties(r1.state, debug_build)
        s3 == cleanup_floor_lines(r2.state)
    IN  IF r1.panic \/ r2.panic THEN Panic
        ELSE IF check_game_end(s3) THEN Ok(s3)
        ELSE IF debug_build /\ s3.round_number = U8Max THEN Panic
        ELSE Ok(refill_factories_with_rng(next_round(s3), rng))

----------------------------------------------------------------------------
(* rules/policy.rs *)

\* let x = value; body: the value is computed once
Let(value, body(_)) == CHOOSE result \in {body(x) : x \in {value}} : TRUE

\* slice.choose(rng): [some, action, rng]
choose(actions, rng) ==
    IF actions = <<>>
    THEN [some |-> FALSE, action |-> DraftAction(Center, NoColor, Floor), rng |-> rng]
    ELSE Let(gen_range(rng, Len(actions)), LAMBDA g :
            [some |-> TRUE, action |-> actions[g.value + 1], rng |-> g.rng])

\* GreedyPolicy::score_action
score_action(s, action) ==
    LET tile_count == IF action.source.kind = "Factory"
                      THEN Get(s.factories[action.source.idx], action.color)
                      ELSE Get(s.center.tiles, action.color)
        pattern_line == s.players[s.active_player_id].pattern_lines[action.destination.row]
        empty_spaces == pattern_line.capacity - pattern_line.count_filled
    IN  tile_count * 10
        + (IF action.destination.kind = "PatternLine"
           THEN 100 + empty_spaces * 5
                + (IF pattern_line.count_filled > 0 /\ pattern_line.color = action.color
                   THEN 15 ELSE 0)
           ELSE 0)

\* RandomPolicy::select_action
RandomPolicy_select_action(s, legal_actions, rng) == choose(legal_actions, rng)

\* GreedyPolicy::select_action: a random action among those of maximal score
GreedyPolicy_select_action(s, legal_actions, rng) ==
    IF legal_actions = <<>> THEN choose(<<>>, rng)
    ELSE Let([i \in 1 .. Len(legal_actions) |-> score_action(s, legal_actions[i])],
             LAMBDA scores :
         Let(CHOOSE m \in {scores[i] : i \in 1 .. Len(scores)} :
                \A i \in 1 .. Len(scores) : scores[i] <= m,
             LAMBDA max_score :
         Let([i \in 1 .. Len(scores) |-> <<scores[i], legal_actions[i]>>],
             LAMBDA scored_actions :
         Let(SelectSeq(scored_actions, LAMBDA scored : scored[1] = max_score),
             LAMBDA best :
         choose([i \in 1 .. Len(best) |-> best[i][2]], rng)))))

----------------------------------------------------------------------------
(* rules/rollout.rs *)

AllRandom == [kind |-> "AllRandom", greedy_ratio |-> 0]
AllGreedy == [kind |-> "AllGreedy", greedy_ratio |-> 0]
\* greedy_ratio in hundredths
Mixed(greedy_ratio) == [kind |-> "Mixed", greedy_ratio |-> greedy_ratio]

RolloutConfig(active_player_policy, opponent_policy, seed, max_actions) ==
    [active_player_policy |-> active_player_policy, opponent_policy |-> opponent_policy,
     seed |-> seed, max_actions |-> max_actions]

is_round_complete(s) ==
    /\ \A i \in FactoryIds : IsEmptyMap(s.factories[i])
    /\ IsEmptyMap(s.center.tiles)

\* rng.gen::<f32>() in hundredths: [value, rng]
gen_f32(rng) == [value |-> NextRandom(rng), rng |-> NextRandom(rng)]

select_action_with_policy(s, legal_actions, policy_mix, rng) ==
    IF policy_mix.kind = "AllRandom" THEN RandomPolicy_select_action(s, legal_actions, rng)
    ELSE IF policy_mix.kind = "AllGreedy" THEN GreedyPolicy_select_action(s, legal_actions, rng)
    ELSE Let(gen_f32(rng), LAMBDA g :
            IF g.value < policy_mix.greedy_ratio
            THEN GreedyPolicy_select_action(s, legal_actions, g.rng)
            ELSE RandomPolicy_select_action(s, legal_actions, g.rng))

\* where the drafting loop of simulate_rollout stops: [code, state, actions_simulated]
Drafted(code, s, actions_simulated) ==
    [code |-> code, state |-> s, actions_simulated |-> actions_simulated]

\* one pass of the drafting loop below its two exit tests: [code, state, rng]
DraftStep(s, rng, config, order, debug_build) ==
    Let(list_legal_actions(s, s.active_player_id, order), LAMBDA legal_actions :
    IF legal_actions = <<>> THEN [code |-> "DEADLOCK", state |-> s, rng |-> rng]
    ELSE
    Let(IF s.active_player_id = 0 THEN config.active_player_policy
        ELSE config.opponent_policy, LAMBDA policy_mix :
    Let(select_action_with_policy(s, legal_actions, policy_mix, rng), LAMBDA selected :
    IF ~selected.some THEN [code |-> "POLICY_FAILURE", state |-> s, rng |-> rng]
    ELSE
    Let(apply_action(s, selected.action, debug_build), LAMBDA applied :
    IF applied.code = "PANIC" THEN [code |-> "PANIC", state |-> s, rng |-> rng]
    ELSE IF applied.code # "OK" THEN [code |-> "ILLEGAL_ACTION", state |-> s, rng |-> rng]
    ELSE [code |-> "OK", state |-> applied.new_state, rng |-> selected.rng]))))

\* the drafting loop of simulate_rollout in a run whose maps iterate in `order`
RECURSIVE DraftingLoop(_, _, _, _, _, _)
DraftingLoop(s, rng, actions_simulated, config, order, debug_build) ==
    IF is_round_complete(s) THEN Drafted("OK", s, actions_simulated)
    ELSE IF actions_simulated >= config.max_actions
    THEN Drafted("MAX_ACTIONS_EXCEEDED", s, actions_simulated)
    ELSE Let(DraftStep(s, rng, config, order, debug_build), LAMBDA step :
            IF step.code # "OK" THEN Drafted(step.code, s, actions_simulated)
            ELSE DraftingLoop(step.state, step.rng, actions_simulated + 1,
                              config, order, debug_build))

\* what simulate_rollout returns after the drafting loop; an error carries
\* the state the drafting stopped in as `drafted`
RolloutReturn(drafted, resolved) ==
    IF drafted.code # "OK"
    THEN [code |-> drafted.code, drafted |-> drafted.state,
          actions_simulated |-> drafted.actions_simulated]
    ELSE IF resolved.code = "PANIC"
    THEN [code |-> "PANIC", drafted |-> drafted.state,
          actions_simulated |-> drafted.actions_simulated]
    ELSE IF resolved.code # "OK"
    THEN [code |-> "ILLEGAL_ACTION", drafted |-> drafted.state,
          actions_simulated |-> drafted.actions_simulated]
    ELSE [code |-> "OK", drafted |-> drafted.state,
          final_state |-> resolved.new_state,
          player_0_score |-> resolved.new_state.players[0].score,
          player_1_score |-> resolved.new_state.players[1].score,
          actions_simulated |-> drafted.actions_simulated,
          completed_normally |-> TRUE]

\* simulate_rollout(initial_state, config) in a run whose maps iterate in
\* `order` and whose thread_rng is in state thread_rng
simulate_rollout(initial_state, config, order, thread_rng, debug_build) ==
    Let(initial_state, LAMBDA s :
    Let(DraftingLoop(s, create_rng_from_seed(config.seed), 0, config, order, debug_build),
        LAMBDA drafted :
    IF drafted.code # "OK" THEN RolloutReturn(drafted, drafted)
    ELSE Let(resolve_end_of_round(drafted.state, thread_rng, debug_build),
             LAMBDA resolved : RolloutReturn(drafted, resolved))))

----------------------------------------------------------------------------
(* rules/evaluator.rs *)

\* an f64 that is a multiple of one half: whole + halves / 2
F64(whole, halves) == [whole |-> whole, halves |-> halves]

F64Gt(a, b) == a.whole > b.whole \/ (a.whole = b.whole /\ a.halves > b.halves)

\* a - b
F64Sub(a, b) ==
    IF a.halves < b.halves THEN F64((a.whole - b.whole) - 1, 1)
    ELSE F64(a.whole - b.whole, a.halves - b.halves)

None == [some |-> FALSE]
Some(value) == [some |-> TRUE, value |-> value]

RolloutPolicyConfig(active_player_policy, opponent_policy) ==
    [active_player_policy |-> active_player_policy, opponent_policy |-> opponent_policy]

\* time_budget_ms is read against the clock only: the clock's answers are an
\* argument of evaluate_best_move
EvaluatorParams(rollouts_per_action, evaluator_seed, shortlist_size, rollout_config) ==
    [rollouts_per_action |-> rollouts_per_action, evaluator_seed |-> evaluator_seed,
     shortlist_size |-> shortlist_size, rollout_config |-> rollout_config]

\* values.iter().sum() as i32: [panic, value]
SumI32(values, debug_build) ==
    LET sum[k \in 0 .. Len(values)] ==
            IF k = 0 THEN [panic |-> FALSE, value |-> 0]
            ELSE IF sum[k - 1].panic THEN sum[k - 1]
            ELSE [panic |-> debug_build /\ OverflowsI32(sum[k - 1].value, values[k]),
                  value |-> WrappingAddI32(sum[k - 1].value, values[k])]
    IN  sum[Len(values)]

\* sum as f64 / values.len() as f64, exact for slices of one or two values:
\* [panic, value]
mean(values, debug_build) ==
    IF values = <<>> THEN [panic |-> FALSE, value |-> F64(0, 0)]
    ELSE Let(SumI32(values, debug_build), LAMBDA sum :
            [panic |-> sum.panic,
             value |-> F64(sum.value \div Len(values),
                           ((sum.value % Len(values)) * 2) \div Len(values))])

count_tiles_in_source(s, source, color) ==
    IF source.kind = "Factory"
    THEN IF source.idx >= FACTORY_COUNT_2P THEN 0 ELSE Get(s.factories[source.idx], color)
    ELSE Get(s.center.tiles, color)

count_placeable_rows(s, player_id, color) ==
    LET player == s.players[player_id]
    IN  Cardinality({row_idx \in Rows :
            /\ \/ player.pattern_lines[row_idx].count_filled = 0
               \/ player.pattern_lines[row_idx].color = color
            /\ ~player.wall[row_idx][get_wall_column_for_color(row_idx, color)]})

\* the f64 score is a whole number
score_action_heuristic(s, action) ==
    LET player == s.players[s.active_player_id]
        pattern_line == player.pattern_lines[action.destination.row]
        tiles_taken == count_tiles_in_source(s, action.source, action.color)
        tiles_after == pattern_line.count_filled + tiles_taken
    IN  (IF action.destination.kind = "PatternLine"
         THEN 100 + (IF tiles_after >= pattern_line.capacity THEN 50 ELSE 0)
                  + action.destination.row * 5
         ELSE 0)
        + tiles_taken * 10
        + (IF action.source.kind = "Center"
           THEN (IF s.center.has_first_player_token THEN -15 ELSE 0)
           ELSE 5)
        + count_placeable_rows(s, s.active_player_id, action.color) * 3

\* the stable descending sort by score, cut after shortlist_size actions
shortlist_actions(s, legal_actions, shortlist_size) ==
    Let(Len(legal_actions), LAMBDA n :
    Let([i \in 1 .. n |-> score_action_heuristic(s, legal_actions[i])], LAMBDA score :
    Let([i \in 1 .. n |-> Cardinality({j \in 1 .. n :
            score[j] > score[i] \/ (score[j] = score[i] /\ j < i)})], LAMBDA rank :
    Let([k \in 1 .. n |-> legal_actions[CHOOSE i \in 1 .. n : rank[i] = k - 1]],
        LAMBDA sorted :
    SubSeq(sorted, 1, Min(shortlist_size, n))))))

\* feedback.rs: the rows whose line was complete before the rollout and is
\* empty in its final state
count_pattern_lines_completed(before_player, after_player) ==
    Cardinality({row \in Rows :
        /\ before_player.pattern_lines[row].count_filled
                = before_player.pattern_lines[row].capacity
        /\ after_player.pattern_lines[row].count_filled = 0})

\* feedback.rs ActionFeatures without expected_adjacency_points, which the
\* evaluator never writes; the f64 features are multiples of one half, and
\* while the rollouts run they hold whole sums
ActionFeatures(expected_floor_penalty, expected_completions, expected_tiles_to_floor, tiles_acquired, takes_first_player_token) ==
    [expected_floor_penalty |-> expected_floor_penalty,
     expected_completions |-> expected_completions,
     expected_tiles_to_floor |-> expected_tiles_to_floor,
     tiles_acquired |-> tiles_acquired,
     takes_first_player_token |-> takes_first_player_token]

\* features whose floor line is that of the board before the rollout
TrackFeatures_floor_before(features, player_before, player_after) ==
    [features EXCEPT
        !.expected_floor_penalty =
            F64(@.whole + calculate_floor_penalty_for_player(player_before), 0),
        !.expected_completions =
            F64(@.whole + count_pattern_lines_completed(player_before, player_after), 0),
        !.expected_tiles_to_floor = F64(@.whole + Len(player_before.floor_line.tiles), 0)]

\* "Track features": what one rollout adds to the sums
TrackFeatures(features, player_before, player_after) ==
    [features EXCEPT
        !.expected_floor_penalty =
            F64(@.whole + calculate_floor_penalty_for_player(player_after), 0),
        !.expected_completions =
            F64(@.whole + count_pattern_lines_completed(player_before, player_after), 0),
        !.expected_tiles_to_floor = F64(@.whole + Len(player_after.floor_line.tiles), 0)]

\* "Average features across rollouts" and "Static features"; the quotient is
\* exact for one or two rollouts
AverageFeatures(features, rollout_count, s, action) ==
    LET average(sum) ==
            IF rollout_count > 0
            THEN F64(sum.whole \div rollout_count,
                     ((sum.whole % rollout_count) * 2) \div rollout_count)
            ELSE sum
    IN  ActionFeatures(average(features.expected_floor_penalty),
                       average(features.expected_completions),
                       average(features.expected_tiles_to_floor),
                       count_tiles_in_source(s, action.source, action.color),
                       action.source.kind = "Center" /\ s.center.has_first_player_token)

\* one rollout of an action, its utility (the score of player_id minus the
\* other seat's) and the board of player_id in its final state:
\* [code, value, player_after]
RolloutUtility(state_after_action, player_id, params, rollout_seed, order, thread_rng, debug_build) ==
    Let(simulate_rollout(state_after_action,
                         RolloutConfig(params.rollout_config.active_player_policy,
                                       params.rollout_config.opponent_policy,
                                       rollout_seed, 100),
                         order, thread_rng, debug_build), LAMBDA result :
    IF result.code = "PANIC" THEN [code |-> "PANIC", value |-> 0]
    ELSE IF result.code # "OK" THEN [code |-> "ROLLOUT_FAILURE", value |-> 0]
    ELSE Let(IF player_id = 0 THEN result.player_0_score ELSE result.player_1_score,
             LAMBDA mine :
         Let(IF player_id = 0 THEN result.player_1_score ELSE result.player_0_score,
             LAMBDA theirs :
            IF debug_build /\ OverflowsI32(mine, -theirs)
            THEN [code |-> "PANIC", value |-> 0]
            ELSE [code |-> "OK", value |-> WrappingAddI32(mine, -theirs),
                  player_after |-> result.final_state.players[player_id]])))

\* a u64 is written as its residue modulo 2^64 of least absolute value, so
\* u64::MAX is -1 and u64::MAX - 1 is -2; the values used here are within
\* 2^21 of 0 or of 2^64
U64Max == -1

\* a sum that stays at u64::MAX instead of going on from 0
WrappingAddU64_saturating(a, b) == IF a < 0 /\ a + b >= 0 THEN U64Max ELSE a + b

\* a.wrapping_add(b): the sum of the residues is the residue of the sum
WrappingAddU64(a, b) == a + b

\* the rollouts of one action, rollout i (from `done` on) seeded with
\* base.wrapping_add(offset + i): [code, utilities, features, seeds], seeds
\* being the seeds handed to simulate_rollout
RECURSIVE RunRollouts(_, _, _, _, _, _, _, _, _, _, _)
RunRollouts(state_after_action, player_id, params, offset, done, utilities, features, seeds, order, thread_rng, debug_build) ==
    IF done >= params.rollouts_per_action
    THEN [code |-> "OK", utilities |-> utilities, features |-> features, seeds |-> seeds]
    ELSE Let(WrappingAddU64(params.evaluator_seed, offset + done), LAMBDA rollout_seed :
         Let(RolloutUtility(state_after_action, player_id, params, rollout_seed,
                            order, thread_rng, debug_build), LAMBDA rollout :
            IF rollout.code # "OK"
            THEN [code |-> rollout.code, utilities |-> utilities, features |-> features,
                  seeds |-> seeds]
            ELSE RunRollouts(state_after_action, player_id, params, offset, done + 1,
                             Append(utilities, rollout.value),
                             TrackFeatures(features, state_after_action.players[player_id],
                                           rollout.player_after),
                             Append(seeds, rollout_seed),
                             order, thread_rng, debug_build)))

\* the tracking variables of evaluate_best_move; an entry of
\* candidate_results also notes the seeds of its rollouts
Tracking(best_action, best_ev, best_features, candidate_results, rollouts_run, candidates_evaluated) ==
    [best_action |-> best_action, best_ev |-> best_ev, best_features |-> best_features,
     candidate_results |-> candidate_results, rollouts_run |-> rollouts_run,
     candidates_evaluated |-> candidates_evaluated]

\* ev > best_ev, best_ev starting at NEG_INFINITY
IsBetter(ev, track) == ~track.best_action.some \/ F64Gt(ev, track.best_ev)

\* the evaluation of one candidate: [code, track]
EvaluateCandidate(s, player_id, params, action, track, order, thread_rng, debug_build) ==
    Let(apply_action(s, action, debug_build), LAMBDA applied :
    IF applied.code = "PANIC" THEN [code |-> "PANIC", track |-> track]
    ELSE IF applied.code # "OK" THEN [code |-> "ACTION_FAILED", track |-> track]
    ELSE
    Let(RunRollouts(applied.new_state, player_id, params, track.rollouts_run, 0,
                    <<>>, ActionFeatures(F64(0, 0), F64(0, 0), F64(0, 0), 0, FALSE), <<>>,
                    order, thread_rng, debug_build),
        LAMBDA rollouts :
    IF rollouts.code # "OK" THEN [code |-> rollouts.code, track |-> track]
    ELSE
    Let(mean(rollouts.utilities, debug_build), LAMBDA ev :
    IF ev.panic THEN [code |-> "PANIC", track |-> track]
    ELSE [code |-> "OK",
          track |-> Tracking(
            IF IsBetter(ev.value, track) THEN Some(action) ELSE track.best_action,
            IF IsBetter(ev.value, track) THEN ev.value ELSE track.best_ev,
            IF IsBetter(ev.value, track)
            THEN AverageFeatures(rollouts.features, Len(rollouts.utilities), s, action)
            ELSE track.best_features,
            Append(track.candidate_results,
                   [action |-> action, ev |-> ev.value,
                    rollouts |-> Len(rollouts.utilities), seeds |-> rollouts.seeds]),
            track.rollouts_run + Len(rollouts.utilities),
            track.candidates_evaluated + 1)])))

\* a loop whose time check also stops it before the first candidate
RECURSIVE EvaluateCandidates_clock_first(_, _, _, _, _, _, _, _, _, _)
EvaluateCandidates_clock_first(s, player_id, params, candidates, i, track, in_time, order, thread_rng, debug_build) ==
    IF i > Len(candidates) THEN [code |-> "OK", track |-> track]
    ELSE IF track.candidates_evaluated >= in_time
    THEN [code |-> "OK", track |-> track]
    ELSE Let(EvaluateCandidate(s, player_id, params, candidates[i], track,
                               order, thread_rng, debug_build), LAMBDA evaluated :
            IF evaluated.code # "OK" THEN evaluated
            ELSE EvaluateCandidates_clock_first(s, player_id, params, candidates, i + 1,
                                                evaluated.track, in_time, order, thread_rng,
                                                debug_build))

\* the candidate loop of evaluate_best_move from candidate i on; the clock
\* reads less than the budget for the first in_time candidates, and on
\* wasm32 for all
RECURSIVE EvaluateCandidates(_, _, _, _, _, _, _, _, _, _)
EvaluateCandidates(s, player_id, params, candidates, i, track, in_time, order, thread_rng, debug_build) ==
    IF i > Len(candidates) THEN [code |-> "OK", track |-> track]
    ELSE IF track.candidates_evaluated >= in_time /\ track.candidates_evaluated > 0
    THEN [code |-> "OK", track |-> track]
    ELSE Let(EvaluateCandidate(s, player_id, params, candidates[i], track,
                               order, thread_rng, debug_build), LAMBDA evaluated :
            IF evaluated.code # "OK" THEN evaluated
            ELSE EvaluateCandidates(s, player_id, params, candidates, i + 1,
                                    evaluated.track, in_time, order, thread_rng, debug_build))

\* the Ok value of evaluate_best_move; grading_seeds notes the seeds of the rollouts grade_user_action ran
EvaluationResult(track, params, total_legal_actions, total_candidates) ==
    [code |-> "OK",
     best_action |-> track.best_action.value,
     best_action_ev |-> track.best_ev,
     user_action_ev |-> None,
     delta_ev |-> None,
     metadata |-> [rollouts_run |-> track.rollouts_run,
                   candidates_evaluated |-> track.candidates_evaluated,
                   total_legal_actions |-> total_legal_actions,
                   seed |-> params.evaluator_seed,
                   completed_within_budget |->
                        track.candidates_evaluated >= total_candidates],
     candidates |-> track.candidate_results,
     best_features |-> track.best_features,
     user_features |-> None,
     grading_seeds |-> <<>>]

\* evaluate_best_move(state, player_id, params) in a run whose maps iterate
\* in `order`
evaluate_best_move(s, player_id, params, in_time, order, thread_rng, debug_build) ==
    IF player_id > 1 THEN [code |-> "INVALID_PLAYER"]
    ELSE Let(list_legal_actions(s, player_id, order), LAMBDA legal_actions :
         IF legal_actions = <<>> THEN [code |-> "NO_LEGAL_ACTIONS"]
         ELSE
         Let(IF params.shortlist_size > 0 /\ Len(legal_actions) > params.shortlist_size
             THEN shortlist_actions(s, legal_actions, params.shortlist_size)
             ELSE legal_actions, LAMBDA candidates :
         Let(EvaluateCandidates(s, player_id, params, candidates, 1,
                                Tracking(None, F64(0, 0),
                                         ActionFeatures(F64(0, 0), F64(0, 0), F64(0, 0),
                                                        0, FALSE),
                                         <<>>, 0, 0),
                                in_time, order, thread_rng, debug_build),
             LAMBDA evaluated :
         IF evaluated.code # "OK" THEN [code |-> evaluated.code]
         ELSE IF ~evaluated.track.best_action.some THEN [code |-> "NO_LEGAL_ACTIONS"]
         ELSE EvaluationResult(evaluated.track, params, Len(legal_actions),
                               Len(candidates)))))

\* candidates.iter().find(|c| c.action == user_action).map(|c| c.ev)
FindCandidateEv(candidates, user_action) ==
    Let(SelectSeq(candidates, LAMBDA c : c.action = user_action), LAMBDA hits :
        IF hits = <<>> THEN None ELSE Some(Head(hits).ev))

\* a user EV that is always the mean of the grading rollouts
UserEv_fresh(user_ev_from_candidates, utilities, debug_build) == mean(utilities, debug_build)

\* user_ev_from_candidates.unwrap_or_else(|| mean(&utilities)): [panic, value]
UserEv(user_ev_from_candidates, utilities, debug_build) ==
    IF user_ev_from_candidates.some
    THEN [panic |-> FALSE, value |-> user_ev_from_candidates.value]
    ELSE mean(utilities, debug_build)

\* grade_user_action(state, player_id, user_action, params, best_result);
\* feedback and grade of the result are not modelled
grade_user_action(s, player_id, user_action, params, best_result, order, thread_rng, debug_build) ==
    Let(list_legal_actions(s, player_id, order), LAMBDA legal_actions :
    IF \A i \in 1 .. Len(legal_actions) : legal_actions[i] # user_action
    THEN [code |-> "ACTION_FAILED"]
    ELSE
    Let(FindCandidateEv(best_result.candidates, user_action),
        LAMBDA user_ev_from_candidates :
    Let(apply_action(s, user_action, debug_build), LAMBDA applied :
    IF applied.code = "PANIC" THEN [code |-> "PANIC"]
    ELSE IF applied.code # "OK" THEN [code |-> "ACTION_FAILED"]
    ELSE
    Let(RunRollouts(applied.new_state, player_id, params, 1000000, 0,
                    <<>>, ActionFeatures(F64(0, 0), F64(0, 0), F64(0, 0), 0, FALSE), <<>>,
                    order, thread_rng, debug_build),
        LAMBDA rollouts :
    IF rollouts.code # "OK" THEN [code |-> rollouts.code]
    ELSE
    Let(UserEv(user_ev_from_candidates, rollouts.utilities, debug_build), LAMBDA user_ev :
    IF user_ev.panic THEN [code |-> "PANIC"]
    ELSE [best_result EXCEPT
            !.user_action_ev = Some(user_ev.value),
            !.delta_ev = Some(F64Sub(user_ev.value, best_result.best_action_ev)),
            !.user_features = Some(AverageFeatures(rollouts.features,
                                                   Len(rollouts.utilities), s, user_action)),
            !.grading_seeds = rollouts.seeds])))))

----------------------------------------------------------------------------
(* rules/generator.rs *)

create_initial_state(rng) ==
    refill_factories_with_rng(
        [new_test_state EXCEPT !.bag = [c \in Colors |-> TILES_PER_COLOR]], rng)

\* the generator as the fill loops of refill_factories_with_rng leave it
\* when they start on `bag`
RECURSIVE RngAfterFill(_, _, _, _)
RngAfterFill(bag, rng, factory_idx, slot) ==
    IF factory_idx >= FACTORY_COUNT_2P THEN rng
    ELSE IF slot >= TILES_PER_FACTORY THEN RngAfterFill(bag, rng, factory_idx + 1, 0)
    ELSE Let(draw_random_tile_from_bag(bag, rng), LAMBDA d :
            IF d.color = NoColor THEN RngAfterFill(bag, d.rng, factory_idx + 1, 0)
            ELSE RngAfterFill(d.bag, d.rng, factory_idx, slot + 1))

\* RoundStage of the tiles left on the factories and in the centre
compute_round_stage(s) ==
    Let(FactoriesCount(s.factories, 0) + count_tiles_in_multiset(s.center.tiles),
        LAMBDA total_in_play :
            IF total_in_play >= 14 THEN "Start"
            ELSE IF total_in_play >= 7 THEN "Mid"
            ELSE "End")

\* GameStage of the two walls
compute_game_stage(s) ==
    LET max_wall_tiles == Max(WallCount(s.players[0].wall, 0), WallCount(s.players[1].wall, 0))
        near_completion ==
            \E p \in Seats, row_idx \in Rows :
                Cardinality({c \in Cols : s.players[p].wall[row_idx][c]}) >= 4
    IN  IF near_completion \/ max_wall_tiles >= 18 THEN "Late"
        ELSE IF max_wall_tiles >= 9 THEN "Mid"
        ELSE "Early"

\* [policy, rng]
select_policy(policy_mix, rng) ==
    IF policy_mix.kind = "AllRandom" THEN [policy |-> "Random", rng |-> rng]
    ELSE IF policy_mix.kind = "AllGreedy" THEN [policy |-> "Greedy", rng |-> rng]
    ELSE Let(gen_f32(rng), LAMBDA r :
            [policy |-> IF r.value < policy_mix.greedy_ratio THEN "Greedy" ELSE "Random",
             rng |-> r.rng])

\* PolicySelector::select_action
PolicySelector_select_action(policy, s, legal_actions, rng) ==
    IF policy = "Random" THEN RandomPolicy_select_action(s, legal_actions, rng)
    ELSE GreedyPolicy_select_action(s, legal_actions, rng)

\* SnapshotCandidate::from_state
SnapshotCandidate_from_state(s, order) ==
    Let(Len(list_legal_actions(s, s.active_player_id, order)), LAMBDA legal_action_count :
        [state |-> s,
         game_stage |-> compute_game_stage(s),
         round_stage |-> compute_round_stage(s),
         legal_action_count |-> legal_action_count,
         wall_tiles |-> WallCount(s.players[0].wall, 0) + WallCount(s.players[1].wall, 0),
         quality_score |-> legal_action_count])

DecimalDigits == <<"0", "1", "2", "3", "4", "5", "6", "7", "8", "9">>

\* u64::to_string: the decimal digits, most significant first
RECURSIVE to_string(_)
to_string(n) ==
    IF n < 10 THEN <<DecimalDigits[n + 1]>>
    ELSE Append(to_string(n \div 10), DecimalDigits[(n % 10) + 1])

NoRoundStage == "None"

GeneratorParams(target_game_stage, target_round_stage, policy_mix, seed) ==
    [target_game_stage |-> target_game_stage, target_round_stage |-> target_round_stage,
     policy_mix |-> policy_mix, seed |-> seed]

\* the State generate_scenario returns, with the three tags it sets
Scenario(s, params) ==
    [code |-> "OK", new_state |-> s,
     scenario_seed |-> to_string(params.seed),
     draft_phase_progress |-> compute_round_stage(s),
     scenario_game_stage |-> compute_game_stage(s)]

\* Iterator::max_by: the last of the elements of greatest quality_score
max_by_quality_score(snapshots) ==
    snapshots[CHOOSE i \in 1 .. Len(snapshots) :
        /\ \A j \in 1 .. Len(snapshots) :
                snapshots[j].quality_score <= snapshots[i].quality_score
        /\ \A j \in (i + 1) .. Len(snapshots) :
                snapshots[j].quality_score < snapshots[i].quality_score]

\* the snapshot generate_scenario takes after the sampling loop
FinalSnapshot(s, snapshots, order) ==
    IF list_legal_actions(s, s.active_player_id, order) # <<>>
       /\ SnapshotCandidate_from_state(s, order).legal_action_count >= 3
    THEN Append(snapshots, SnapshotCandidate_from_state(s, order))
    ELSE snapshots

\* SelectSnapshot that falls back on the snapshots of the game stage when
\* none of them has the round stage asked for
SelectSnapshot_any_round_stage(snapshots, params) ==
    Let(SelectSeq(snapshots,
                  LAMBDA snapshot : snapshot.game_stage = params.target_game_stage),
        LAMBDA matching_game_stage :
    Let(SelectSeq(matching_game_stage,
                  LAMBDA snapshot : snapshot.round_stage = params.target_round_stage),
        LAMBDA matching_round_stage :
    Let(IF matching_round_stage # <<>> THEN matching_round_stage ELSE matching_game_stage,
        LAMBDA matching_snapshots :
    IF matching_snapshots = <<>> THEN Err("NO_POLICY_ACTION")
    ELSE Scenario(max_by_quality_score(matching_snapshots).state, params))))

\* generate_scenario from the filtering of the snapshots on
SelectSnapshot(snapshots, params) ==
    Let(SelectSeq(snapshots,
                  LAMBDA snapshot : snapshot.game_stage = params.target_game_stage),
        LAMBDA matching_game_stage :
    Let(IF params.target_round_stage # NoRoundStage
        THEN SelectSeq(matching_game_stage,
                       LAMBDA snapshot : snapshot.round_stage = params.target_round_stage)
        ELSE matching_game_stage, LAMBDA matching_snapshots :
    IF matching_snapshots = <<>> THEN Err("NO_POLICY_ACTION")
    ELSE Scenario(max_by_quality_score(matching_snapshots).state, params)))

(* rules/filters.rs *)

FilterConfig(min_legal_actions, min_unique_destinations, require_non_floor_option, max_floor_ratio) ==
    [min_legal_actions |-> min_legal_actions,
     min_unique_destinations |-> min_unique_destinations,
     require_non_floor_option |-> require_non_floor_option,
     max_floor_ratio |-> max_floor_ratio]

count_unique_destinations(actions) ==
    Cardinality({IF actions[i].destination.kind = "Floor" THEN "floor"
                 ELSE IF actions[i].destination.row \in 0 .. 4
                 THEN <<"pl0", "pl1", "pl2", "pl3", "pl4">>[actions[i].destination.row + 1]
                 ELSE "pl_other" : i \in 1 .. Len(actions)})

is_floor_action(action) == action.destination.kind = "Floor"

\* apply_quality_filters that tests the floor ratio before the non-floor
\* option
apply_quality_filters_ratio_first(s, config, order) ==
    Let(list_legal_actions(s, s.active_player_id, order), LAMBDA legal_actions :
    Let(Len(SelectSeq(legal_actions, is_floor_action)), LAMBDA floor_count :
    IF Len(legal_actions) < config.min_legal_actions THEN "TOO_FEW_ACTIONS"
    ELSE IF count_unique_destinations(legal_actions) < config.min_unique_destinations
    THEN "DEGENERATE_OPTIONS"
    ELSE IF Len(legal_actions) > 0
            /\ floor_count * 100 > config.max_floor_ratio * Len(legal_actions)
    THEN "TOO_MANY_FLOOR_ACTIONS"
    ELSE IF config.require_non_floor_option /\ floor_count = Len(legal_actions)
    THEN "NO_NON_FLOOR_OPTION"
    ELSE "OK"))

\* max_floor_ratio in hundredths; the ratio of an empty list is NaN, which
\* is greater than nothing
apply_quality_filters(s, config, order) ==
    Let(list_legal_actions(s, s.active_player_id, order), LAMBDA legal_actions :
    Let(Len(SelectSeq(legal_actions, is_floor_action)), LAMBDA floor_count :
    IF Len(legal_actions) < config.min_legal_actions THEN "TOO_FEW_ACTIONS"
    ELSE IF count_unique_destinations(legal_actions) < config.min_unique_destinations
    THEN "DEGENERATE_OPTIONS"
    ELSE IF config.require_non_floor_option /\ floor_count = Len(legal_actions)
    THEN "NO_NON_FLOOR_OPTION"
    ELSE IF Len(legal_actions) > 0
            /\ floor_count * 100 > config.max_floor_ratio * Len(legal_actions)
    THEN "TOO_MANY_FLOOR_ACTIONS"
    ELSE "OK"))


----------------------------------------------------------------------------
(* Bounds and inputs *)

\* API calls the host makes in one explored game
MaxCalls == 3

\* seeds the random generators are created from
NumSeeds == 1

\* highest pattern-line row the host of an explored game places on
MaxRow == 0

Seeds == 1 .. NumSeeds

\* every action value a host can submit, one factory index and one row past
\* the valid range included
InputSources == {Factory(i) : i \in 0 .. FACTORY_COUNT_2P} \cup {Center}
InputDestinations == {PatternLine(r) : r \in 0 .. PATTERN_LINE_COUNT} \cup {Floor}
InputActions ==
    {DraftAction(s, c, d) : s \in InputSources, c \in Colors, d \in InputDestinations}

\* the actions the host of an explored game submits: any source and colour,
\* pattern-line rows 0..MaxRow or the floor line
GameDestinations == {PatternLine(r) : r \in 0 .. MaxRow} \cup {Floor}
GameActions ==
    {DraftAction(s, c, d) : s \in InputSources, c \in Colors, d \in GameDestinations}

\* orders in which a HashMap may enumerate its keys
IterationOrders ==
    {ALL_COLORS,
     <<"White", "Black", "Red", "Yellow", "Blue">>,
     <<"Red", "Blue", "White", "Yellow", "Black">>}

----------------------------------------------------------------------------
(* States a host can hand to the API: boards, tables and supplies from     *)
(* which 100-tile states are assembled.                                     *)

Line(capacity, color, count_filled) ==
    [capacity |-> capacity, color |-> color, count_filled |-> count_filled]

WallOf(cells) == [r \in Rows |-> [c \in Cols |-> <<r, c>> \in cells]]

BoardEmpty == NewPlayerBoard

BoardMid ==
    [score |-> 3,
     pattern_lines |-> [r \in Rows |->
        CASE r = 1 -> Line(2, "Red", 1)
          [] r = 2 -> Line(3, "Blue", 3)
          [] r = 4 -> Line(5, "Yellow", 2)
          [] OTHER -> NewPatternLine(r)],
     wall |-> WallOf({<<0, 0>>, <<1, 2>>, <<2, 1>>, <<2, 3>>}),
     floor_line |-> [tiles |-> <<"Red", "White">>, has_first_player_token |-> FALSE]]

BoardLate ==
    [score |-> 2,
     pattern_lines |-> [r \in Rows |->
        CASE r = 0 -> Line(1, "White", 1)
          [] r = 1 -> Line(2, "Blue", 1)
          [] r = 3 -> Line(4, "Red", 4)
          [] OTHER -> NewPatternLine(r)],
     wall |-> WallOf({<<0, 0>>, <<0, 1>>, <<0, 2>>, <<0, 3>>, <<1, 4>>}),
     floor_line |-> [tiles |-> <<"Blue", "Blue", "Yellow", "Yellow", "Red", "Black",
                                 "White", "White">>,
                     has_first_player_token |-> FALSE]]

\* a complete line whose wall cell is already true; the lowest score
BoardStale ==
    [score |-> I32Min,
     pattern_lines |-> [r \in Rows |->
        CASE r = 0 -> Line(1, "Blue", 1)
          [] OTHER -> NewPatternLine(r)],
     wall |-> WallOf({<<0, 0>>}),
     floor_line |-> [tiles |-> <<"Red">>, has_first_player_token |-> FALSE]]

\* lines that hold tiles without a colour
BoardNoColor ==
    [score |-> 0,
     pattern_lines |-> [r \in Rows |->
        CASE r = 1 -> Line(2, NoColor, 2)
          [] r = 2 -> Line(3, NoColor, 1)
          [] OTHER -> NewPatternLine(r)],
     wall |-> WallOf({<<2, 2>>}),
     floor_line |-> [tiles |-> <<>>, has_first_player_token |-> FALSE]]

\* the highest score, about to place a tile
BoardRich ==
    [score |-> I32Max,
     pattern_lines |-> [r \in Rows |->
        CASE r = 0 -> Line(1, "Red", 1)
          [] OTHER -> NewPatternLine(r)],
     wall |-> EmptyWall,
     floor_line |-> [tiles |-> <<>>, has_first_player_token |-> FALSE]]

\* complete lines in rows 0 and 1 whose wall cells are one above the other
BoardStack ==
    [score |-> 4,
     pattern_lines |-> [r \in Rows |->
        CASE r = 0 -> Line(1, "Blue", 1)
          [] r = 1 -> Line(2, "White", 2)
          [] r = 3 -> Line(4, "Red", 2)
          [] OTHER -> NewPatternLine(r)],
     wall |-> WallOf({<<1, 1>>, <<2, 0>>}),
     floor_line |-> [tiles |-> <<"Black">>, has_first_player_token |-> FALSE]]

\* lines that take Blue, and in row 1 Yellow, and nothing else
BoardBlocked ==
    [score |-> 5,
     pattern_lines |-> [r \in Rows |->
        CASE r = 0 -> Line(1, "Blue", 1)
          [] r = 1 -> Line(2, "Yellow", 1)
          [] r = 2 -> Line(3, "Blue", 2)
          [] r = 3 -> Line(4, "Blue", 3)
          [] OTHER -> Line(5, "Blue", 2)],
     wall |-> EmptyWall,
     floor_line |-> [tiles |-> <<>>, has_first_player_token |-> FALSE]]

\* only row 0 takes a new colour, and not Red
BoardCramped ==
    [score |-> 7,
     pattern_lines |-> [r \in Rows |->
        CASE r = 0 -> NewPatternLine(0)
          [] r = 1 -> Line(2, "Yellow", 1)
          [] r = 2 -> Line(3, "Black", 2)
          [] r = 3 -> Line(4, "White", 1)
          [] OTHER -> Line(5, "Yellow", 3)],
     wall |-> WallOf({<<0, 2>>, <<1, 0>>}),
     floor_line |-> [tiles |-> <<>>, has_first_player_token |-> FALSE]]

Boards ==
    {BoardEmpty, BoardMid, BoardLate, BoardStale, BoardNoColor, BoardRich, BoardStack}

BoardPairs ==
    {<<b, BoardEmpty>> : b \in Boards} \cup {<<BoardMid, b>> : b \in Boards}
        \cup {<<BoardBlocked, BoardEmpty>>}

NoFactories == [i \in FactoryIds |-> EmptyMultiset]

\* [factories, center tiles, token holder, most tiles of a colour the bag
\* holds (the others of the supply are in the lid), round]
TableDone ==
    [factories |-> NoFactories, tiles |-> EmptyMultiset, token |-> "seat1",
     bag_cap |-> TILES_PER_COLOR, round |-> 2]

TableDoneLid == [TableDone EXCEPT !.bag_cap = 2]

\* both seats carry the token flag
TableDoneBoth == [TableDone EXCEPT !.token = "both"]

\* the last round number a u8 holds
TableDoneLast == [TableDone EXCEPT !.round = U8Max]

TableOpen ==
    [factories |-> [i \in FactoryIds |->
        CASE i = 0 -> [c \in {"Red", "Blue"} |-> IF c = "Red" THEN 3 ELSE 1]
          [] i = 1 -> [c \in {"Yellow", "Black", "White"} |-> IF c = "White" THEN 0 ELSE 2]
          [] i = 2 -> [c \in {"White"} |-> 4]
          [] OTHER -> EmptyMultiset],
     tiles |-> [c \in {"Blue", "White", "Red"} |-> IF c = "White" THEN 2 ELSE 1],
     token |-> "center", bag_cap |-> TILES_PER_COLOR, round |-> 2]

TableCenter ==
    [factories |-> NoFactories,
     tiles |-> [c \in {"Red", "Black", "Blue"} |->
                    IF c = "Red" THEN 2 ELSE IF c = "Black" THEN 1 ELSE 0],
     token |-> "center", bag_cap |-> TILES_PER_COLOR, round |-> 2]

TableCenterTaken == [TableCenter EXCEPT !.token = "seat0"]

\* one factory and the centre hold tiles; no map stores a zero count
TableSmall ==
    [TableCenter EXCEPT
        !.factories = [i \in FactoryIds |->
            IF i = 0 THEN [c \in {"Red", "Yellow"} |-> IF c = "Red" THEN 3 ELSE 1]
            ELSE EmptyMultiset],
        !.tiles = [c \in {"White"} |-> 2]]

\* two takes end the round; no map stores a zero count
TableLastTakes ==
    [TableCenter EXCEPT !.tiles = [c \in {"Yellow", "White"} |-> IF c = "Yellow" THEN 2 ELSE 1]]

\* twelve tiles of one colour have gathered in the centre
TableHeap ==
    [TableCenter EXCEPT !.tiles = [c \in {"Red", "Blue"} |-> IF c = "Red" THEN 12 ELSE 1]]

Tables ==
    {TableDone, TableDoneLid, [TableDone EXCEPT !.bag_cap = 10], TableDoneBoth, TableDoneLast, TableOpen,
     TableCenter, TableCenterTaken, TableLastTakes}

\* tiles of one colour on the table and the boards of a state
RECURSIVE WallColorCount(_, _, _)
WallColorCount(wall, color, row) ==
    IF row >= 5 THEN 0
    ELSE (IF wall[row][get_wall_column_for_color(row, color)] THEN 1 ELSE 0)
         + WallColorCount(wall, color, row + 1)

RECURSIVE LineColorCount(_, _, _)
LineColorCount(pattern_lines, color, row) ==
    IF row >= 5 THEN 0
    ELSE (IF pattern_lines[row].color = color
             \/ (pattern_lines[row].color = NoColor /\ color = "Blue")
          THEN pattern_lines[row].count_filled ELSE 0)
         + LineColorCount(pattern_lines, color, row + 1)

BoardColorCount(board, color) ==
    WallColorCount(board.wall, color, 0) + LineColorCount(board.pattern_lines, color, 0)
        + Len(SelectSeq(board.floor_line.tiles, LAMBDA x : x = color))

RECURSIVE FactoriesColorCount(_, _, _)
FactoriesColorCount(factories, color, i) ==
    IF i >= FACTORY_COUNT_2P THEN 0
    ELSE Get(factories[i], color) + FactoriesColorCount(factories, color, i + 1)

InPlay(table, pair, color) ==
    FactoriesColorCount(table.factories, color, 0) + Get(table.tiles, color)
        + BoardColorCount(pair[1], color) + BoardColorCount(pair[2], color)

\* the 100-tile state with this table and these boards: what is not in play
\* is in the bag up to the table's cap, the rest of it in the lid
AssembleState(table, pair, active) ==
    LET rest(c) == TILES_PER_COLOR - InPlay(table, pair, c)
        in_bag(c) == Min(rest(c), table.bag_cap)
        board(p) == [pair[p + 1] EXCEPT
                        !.floor_line.has_first_player_token =
                            (table.token \in {IF p = 0 THEN "seat0" ELSE "seat1", "both"})]
    IN  [active_player_id |-> active,
         round_number |-> table.round,
         bag |-> [c \in Colors |-> in_bag(c)],
         lid |-> [c \in {x \in Colors : rest(x) - in_bag(x) > 0} |-> rest(c) - in_bag(c)],
         factories |-> table.factories,
         center |-> [tiles |-> table.tiles,
                     has_first_player_token |-> (table.token = "center")],
         players |-> [p \in Seats |-> board(p)]]

\* a late state with a scarce bag and one tile in the lid
ScarceState(pair, active, bag) ==
    [AssembleState(TableDone, pair, active) EXCEPT
        !.bag = bag,
        !.lid = [c \in {"Yellow"} |-> 1]]

HostStates ==
    {AssembleState(table, pair, active) :
        table \in Tables, pair \in BoardPairs, active \in Seats}
    \cup {AssembleState(TableHeap, <<BoardCramped, BoardEmpty>>, active) : active \in Seats}
    \* a state that a caller built with one tile missing from the bag
    \cup {[AssembleState(TableLastTakes, <<BoardEmpty, BoardEmpty>>, 0) EXCEPT
                !.bag["Blue"] = @ - 1]}
    \cup {ScarceState(pair, active, bag) :
            pair \in {<<BoardEmpty, BoardEmpty>>, <<BoardMid, BoardEmpty>>}, active \in Seats,
            bag \in {[c \in {"Blue", "Red", "Black"} |->
                        IF c = "Blue" THEN 3 ELSE IF c = "Red" THEN 2 ELSE 0],
                    [c \in {"Black"} |-> 0],
                    EmptyMultiset}}

----------------------------------------------------------------------------
(* The host's calls *)

NoAction == DraftAction(Center, NoColor, Floor)

Call(op, action, code) == [op |-> op, action |-> action, code |-> code]

\* input_after_call for a call that mutates the state it is given
input_after_call_in_place(s, result) ==
    IF result.code = "OK" THEN result.new_state ELSE s

\* apply.rs:45,99 and end_of_round.rs:45-46: the call borrows the state
\* immutably and mutates a clone, so the caller's value is what it was
input_after_call(s, result) == s

\* apply_action returned Ok: the host goes on with the new state.  A build
\* without debug assertions returns Ok whenever one with them does, and
\* returns the same state.
ApplyAction(action) ==
    /\ calls < MaxCalls
    /\ validate_action(state, action) = "OK"
    /\ \E result \in {apply_action(state, action, FALSE)} :
        /\ result.code = "OK"
        /\ state' = result.new_state
        /\ before' = state
        /\ input' = input_after_call(state, result)
        /\ last' = Call("apply_action", action, "OK")
        /\ calls' = calls + 1
        /\ center_takes' = IF action.source = Center THEN center_takes + 1
                           ELSE center_takes
        /\ UNCHANGED <<listed, returned>>

\* apply_action returned Err or aborted: the host keeps the state it has
ApplyActionRejected(action, debug_build) ==
    /\ calls < MaxCalls
    /\ \E result \in {apply_action(state, action, debug_build)} :
        /\ result.code # "OK"
        /\ state' = input_after_call(state, result)
        /\ before' = state
        /\ input' = input_after_call(state, result)
        /\ last' = Call("apply_action", action, result.code)
        /\ calls' = calls + 1
        /\ UNCHANGED <<center_takes, listed, returned>>

\* resolve_end_of_round returned Ok
ResolveEndOfRound(seed, debug_build) ==
    /\ calls < MaxCalls
    /\ \E result \in {resolve_end_of_round(state, create_rng_from_seed(seed), debug_build)} :
        /\ result.code = "OK"
        /\ state' = result.new_state
        /\ before' = state
        /\ input' = input_after_call(state, result)
        /\ last' = Call("resolve_end_of_round", NoAction, "OK")
        /\ calls' = calls + 1
        /\ center_takes' = 0
        /\ UNCHANGED <<listed, returned>>

\* resolve_end_of_round aborted
ResolveEndOfRoundAborted(seed, debug_build) ==
    /\ calls < MaxCalls
    /\ \E result \in {resolve_end_of_round(state, create_rng_from_seed(seed), debug_build)} :
        /\ result.code # "OK"
        /\ state' = input_after_call(state, result)
        /\ before' = state
        /\ input' = input_after_call(state, result)
        /\ last' = Call("resolve_end_of_round", NoAction, result.code)
        /\ calls' = calls + 1
        /\ UNCHANGED <<center_takes, listed, returned>>

\* resolve_pattern_lines(&mut state) returned: the host's state is mutated in
\* place
ResolvePatternLines(debug_build) ==
    /\ calls < MaxCalls
    /\ \E result \in {resolve_pattern_lines(state, debug_build)} :
        /\ ~result.panic
        /\ state' = result.state
        /\ input' = result.state
    /\ before' = state
    /\ last' = Call("resolve_pattern_lines", NoAction, "OK")
    /\ calls' = calls + 1
    /\ UNCHANGED <<center_takes, listed, returned>>

\* refill_factories_with_rng(&mut state, &mut rng) returned: the host's state
\* is mutated in place
RefillFactories(seed) ==
    /\ calls < MaxCalls
    /\ state' = refill_factories_with_rng(state, create_rng_from_seed(seed))
    /\ input' = state'
    /\ before' = state
    /\ last' = Call("refill_factories_with_rng", NoAction, "OK")
    /\ calls' = calls + 1
    /\ returned' = [rng |-> create_rng_from_seed(seed)]
    /\ UNCHANGED <<center_takes, listed>>

\* the policies of the two seats, and max_actions: none, fewer than a round
\* needs, the default
RolloutConfigs ==
    {RolloutConfig(pair[1], pair[2], seed, max_actions) :
        pair \in {<<AllRandom, AllRandom>>, <<AllGreedy, AllRandom>>,
                  <<Mixed(50), AllGreedy>>},
        seed \in Seeds, max_actions \in {0, 1, 2, 100}}

\* states the process-wide thread_rng is found in
ThreadRngStates == {NextRandom(0), NextRandom(1)}

\* simulate_rollout(&state, &config) returned or aborted; the state is only
\* read
SimulateRollout(config, order, thread_rng, debug_build) ==
    /\ calls < MaxCalls
    /\ returned' = [config |-> config, order |-> order, debug_build |-> debug_build,
                    result |-> simulate_rollout(state, config, order, thread_rng, debug_build)]
    /\ before' = state
    /\ last' = Call("simulate_rollout", NoAction, "OK")
    /\ calls' = calls + 1
    /\ UNCHANGED <<state, input, center_takes, listed>>

\* list_legal_actions(state, player_id) in a run of the program whose maps
\* iterate in `order`; the state is only read
ListLegalActions(player_id, order) ==
    /\ calls < MaxCalls
    /\ listed' = [player_id |-> player_id,
                  actions |-> list_legal_actions(state, player_id, order)]
    /\ before' = state
    /\ last' = Call("list_legal_actions", NoAction, "OK")
    /\ calls' = calls + 1
    /\ UNCHANGED <<state, input, center_takes, returned>>

\* GreedyPolicy.select_action(&state, &legal_actions, &mut rng) on the legal
\* actions of the active seat, listed in a run whose maps iterate in `order`
GreedySelectAction(seed, order) ==
    /\ calls < MaxCalls
    /\ \E legal_actions \in {list_legal_actions(state, state.active_player_id, order)} :
        returned' = [legal_actions |-> legal_actions,
                     selected |-> GreedyPolicy_select_action(state, legal_actions,
                                                             create_rng_from_seed(seed))]
    /\ before' = state
    /\ input' = state
    /\ last' = Call("GreedyPolicy_select_action", NoAction, "OK")
    /\ calls' = calls + 1
    /\ UNCHANGED <<state, center_takes, listed>>

\* apply_quality_filters(&state, &config) in a run of the program whose maps
\* iterate in `order`; the state is only read
ApplyQualityFilters(config, order) ==
    /\ calls < MaxCalls
    /\ returned' = [config |-> config, order |-> order,
                    result |-> apply_quality_filters(state, config, order)]
    /\ before' = state
    /\ input' = state
    /\ last' = Call("apply_quality_filters", NoAction, "OK")
    /\ calls' = calls + 1
    /\ UNCHANGED <<state, center_takes, listed>>

NothingListed == [player_id |-> 0, actions |-> <<>>]

NothingReturned == [rng |-> 0]

\* the states a StdRng is found in
RngStates == {NextRandom(rng) : rng \in 0 .. 99}

\* draw_random_tile_from_bag(&mut state.bag, &mut rng) returned
DrawRandomTile(rng) ==
    /\ calls < MaxCalls
    /\ LET d == draw_random_tile_from_bag(state.bag, rng)
       IN  /\ state' = [state EXCEPT !.bag = d.bag]
           /\ returned' = [rng |-> rng, color |-> d.color, rng_after |-> d.rng]
    /\ input' = state'
    /\ before' = state
    /\ last' = Call("draw_random_tile_from_bag", NoAction, "OK")
    /\ calls' = calls + 1
    /\ UNCHANGED <<center_takes, listed>>

\* a game from the generator's initial state
Init ==
    /\ \E seed \in Seeds : state = create_initial_state(create_rng_from_seed(seed))
    /\ before = state
    /\ input = state
    /\ last = Call("create_initial_state", NoAction, "OK")
    /\ calls = 0
    /\ center_takes = 0
    /\ listed = NothingListed
    /\ returned = NothingReturned

Next ==
    \/ \E action \in GameActions : ApplyAction(action)
    \/ \E seed \in Seeds, debug_build \in BOOLEAN :
            ResolveEndOfRound(seed, debug_build)

Spec == Init /\ [][Next]_vars

\* one call on a state the host supplies
InitAny ==
    /\ state \in HostStates
    /\ before = state
    /\ input = state
    /\ last = Call("host_state", NoAction, "OK")
    /\ calls = MaxCalls - 1
    /\ center_takes = 0
    /\ listed = NothingListed
    /\ returned = NothingReturned

NextAny ==
    \/ \E action \in InputActions : ApplyAction(action)
    \/ \E action \in InputActions, debug_build \in BOOLEAN :
            ApplyActionRejected(action, debug_build)
    \/ \E seed \in Seeds, debug_build \in BOOLEAN :
            ResolveEndOfRound(seed, debug_build)
    \/ \E seed \in Seeds, debug_build \in BOOLEAN :
            ResolveEndOfRoundAborted(seed, debug_build)
    \/ \E player_id \in Seats, order \in IterationOrders :
            ListLegalActions(player_id, order)
    \/ \E debug_build \in BOOLEAN : ResolvePatternLines(debug_build)
    \/ \E seed \in Seeds : RefillFactories(seed)
    \/ \E rng \in RngStates : DrawRandomTile(rng)
    \/ \E config \in RolloutConfigs, order \in IterationOrders,
          thread_rng \in ThreadRngStates, debug_build \in BOOLEAN :
            SimulateRollout(config, order, thread_rng, debug_build)
    \* the default filters, filters that leave the last two tests to decide,
    \* and filters that only a list without Floor actions passes
    \/ \E config \in {FilterConfig(6, 2, TRUE, 50), FilterConfig(1, 1, TRUE, 50),
                       FilterConfig(0, 0, FALSE, 0), FilterConfig(2, 3, FALSE, 40)},
          order \in IterationOrders :
            ApplyQualityFilters(config, order)
    \/ \E seed \in Seeds, order \in IterationOrders : GreedySelectAction(seed, order)

SpecAny == InitAny /\ [][NextAny]_vars

\* the states the evaluator is called on
EvalStates ==
    {AssembleState(table, pair, active) :
        table \in {TableDone, TableCenter, TableLastTakes, TableSmall},
        pair \in {<<BoardEmpty, BoardEmpty>>, <<BoardMid, BoardEmpty>>,
                  <<BoardMid, BoardStack>>, <<BoardRich, BoardEmpty>>},
        active \in Seats}

\* one greedy rollout of every legal action, or two random rollouts of a
\* shortlist of three, also with the largest seed, or no rollout at all
EvaluatorParamsSet ==
    {IF n = 1
     THEN EvaluatorParams(n, seed, 0, RolloutPolicyConfig(AllGreedy, AllGreedy))
     ELSE EvaluatorParams(n, seed, 3, RolloutPolicyConfig(AllRandom, AllRandom)) :
        n \in {1, 2}, seed \in Seeds}
    \cup {EvaluatorParams(2, U64Max, 3, RolloutPolicyConfig(AllRandom, AllRandom)),
          EvaluatorParams(0, 1, 3, RolloutPolicyConfig(AllGreedy, AllGreedy))}

\* evaluate_best_move(&state, player_id, &params) returned or aborted
EvaluateBestMove(player_id, params, in_time, order, thread_rng, debug_build) ==
    /\ calls < MaxCalls
    /\ last.op = "host_state"
    /\ returned' = [player_id |-> player_id, params |-> params, in_time |-> in_time,
                    order |-> order, thread_rng |-> thread_rng,
                    debug_build |-> debug_build,
                    result |-> evaluate_best_move(state, player_id, params, in_time,
                                                  order, thread_rng, debug_build)]
    /\ before' = state
    /\ last' = Call("evaluate_best_move", NoAction, "OK")
    /\ calls' = calls + 1
    /\ UNCHANGED <<state, input, center_takes, listed>>

\* grade_user_action(&state, player_id, &user_action, &params, &best_result)
\* returned or aborted, best_result being the evaluation just returned
GradeUserAction(user_action) ==
    /\ calls < MaxCalls
    /\ last.op = "evaluate_best_move"
    /\ returned.result.code = "OK"
    /\ returned' = [player_id |-> returned.player_id, params |-> returned.params,
                    in_time |-> returned.in_time, order |-> returned.order,
                    thread_rng |-> returned.thread_rng,
                    debug_build |-> returned.debug_build,
                    best_result |-> returned.result,
                    user_action |-> user_action,
                    result |-> grade_user_action(state, returned.player_id, user_action,
                                                 returned.params, returned.result,
                                                 returned.order, returned.thread_rng,
                                                 returned.debug_build)]
    /\ before' = state
    /\ last' = Call("grade_user_action", user_action, "OK")
    /\ calls' = calls + 1
    /\ UNCHANGED <<state, input, center_takes, listed>>

\* an evaluation and the grading of one user action on a state the host
\* supplies
InitEval ==
    /\ state \in EvalStates
    /\ before = state
    /\ input = state
    /\ last = Call("host_state", NoAction, "OK")
    /\ calls = MaxCalls - 2
    /\ center_takes = 0
    /\ listed = NothingListed
    /\ returned = NothingReturned

NextEval ==
    \* the budget is used up from the start (time_budget_ms = 0) or after
    \* two candidates, or never
    \/ \E player_id \in Seats, params \in EvaluatorParamsSet, in_time \in {0, 2, 100},
          order \in IterationOrders, thread_rng \in ThreadRngStates,
          debug_build \in BOOLEAN :
            EvaluateBestMove(player_id, params, in_time, order, thread_rng, debug_build)
    \/ \E source \in {Factory(0), Center}, color \in {"Yellow", "White", "Red"},
          destination \in {PatternLine(0), PatternLine(3), Floor} :
            GradeUserAction(DraftAction(source, color, destination))

SpecEval == InitEval /\ [][NextEval]_vars

----------------------------------------------------------------------------
(* rules/generator.rs: generate_scenario_with_filters as a process *)

\* a generate_scenario_with_filters call under way: its arguments, the
\* locals of its loop and of the generate_scenario call inside it, the
\* arguments not read so far, the maps' iteration order in this run, the
\* state of the thread's generator, and what each attempt so far generated
GeneratorCall(params, filter_config, max_attempts, order, thread_rng) ==
    [pc |-> "attempt", params |-> params, filter_config |-> filter_config,
     max_attempts |-> max_attempts, order |-> order, thread_rng |-> thread_rng,
     unread |-> {"target_round_stage", "filter_config"},
     attempt |-> 0, attempt_seed |-> params.seed, rng |-> 0,
     snapshots |-> <<>>, decision_count |-> 0,
     best_stage_matching_state |-> Err("NONE"), generated |-> Err("NONE"),
     result |-> Err("NONE"), attempts |-> <<>>]

\* generate_scenario returns `result` to the attempt loop
Generated(s, call, result) ==
    [state |-> s, call |-> [call EXCEPT !.pc = "generated", !.generated = result]]

\* select_policy, select_action and apply_action of one decision:
\* [code, state, rng]
PolicyStep(s, legal_actions, call) ==
    Let(select_policy(call.params.policy_mix, call.rng), LAMBDA selector :
    Let(PolicySelector_select_action(selector.policy, s, legal_actions, selector.rng),
        LAMBDA selected :
    IF ~selected.some THEN [code |-> "NO_POLICY_ACTION", state |-> s, rng |-> selected.rng]
    ELSE
    Let(apply_action(s, selected.action, TRUE), LAMBDA applied :
    IF applied.code # "OK"
    THEN [code |-> IF applied.code = "PANIC" THEN "PANIC" ELSE "APPLY_ACTION_FAILED",
          state |-> s, rng |-> selected.rng]
    ELSE [code |-> "OK", state |-> applied.new_state, rng |-> selected.rng])))

\* one pass of the loop inside the play-forward loop, with the tests that
\* follow it when the pass resolved the round: [state, call]
RoundStep(s, call) ==
    Let(list_legal_actions(s, s.active_player_id, call.order), LAMBDA legal_actions :
    IF legal_actions = <<>>
    THEN
        Let(resolve_end_of_round(s, call.thread_rng, TRUE), LAMBDA resolved :
        IF resolved.code # "OK" THEN Generated(s, call, Err(resolved.code))
        ELSE
        Let(resolved.new_state, LAMBDA new_state :
        \* the refill drew the tiles now on the factories from the bag
        Let([call EXCEPT !.thread_rng = RngAfterFill(
                [c \in Colors |-> Get(new_state.bag, c)
                                    + FactoriesColorCount(new_state.factories, c, 0)],
                @, 0, 0)], LAMBDA drawn :
        Let(IF call.params.target_game_stage = "Early" THEN 0
            ELSE IF call.params.target_game_stage = "Mid" THEN 9
            ELSE 18, LAMBDA target_wall_tiles :
        IF compute_game_stage(new_state) = call.params.target_game_stage
        THEN [state |-> new_state, call |-> [drawn EXCEPT !.pc = "sample"]]
        ELSE IF target_wall_tiles > 0
                /\ WallCount(new_state.players[0].wall, 0)
                    + WallCount(new_state.players[1].wall, 0) > target_wall_tiles + 10
        THEN Generated(new_state, drawn, Err("NO_POLICY_ACTION"))
        ELSE [state |-> new_state, call |-> [drawn EXCEPT !.pc = "stage"]]))))
    ELSE
        Let(PolicyStep(s, legal_actions, call), LAMBDA step :
        IF step.code # "OK" THEN Generated(s, call, Err(step.code))
        ELSE [state |-> step.state, call |-> [call EXCEPT !.rng = step.rng]]))

\* one pass of the sampling loop, or its exit and the selection after it:
\* [state, call]
SampleStep(s, call) ==
    Let(list_legal_actions(s, s.active_player_id, call.order), LAMBDA legal_actions :
    IF legal_actions = <<>> \/ call.decision_count >= 100
    THEN Let(FinalSnapshot(s, call.snapshots, call.order), LAMBDA snapshots :
            Generated(s, [call EXCEPT !.snapshots = snapshots],
                      SelectSnapshot(snapshots,
                                     [call.params EXCEPT !.seed = call.attempt_seed])))
    ELSE
        Let(IF call.decision_count % 2 = 0 /\ Len(legal_actions) >= 3
            THEN Append(call.snapshots, SnapshotCandidate_from_state(s, call.order))
            ELSE call.snapshots, LAMBDA snapshots :
        Let(PolicyStep(s, legal_actions, call), LAMBDA step :
        IF step.code # "OK" THEN Generated(s, call, Err(step.code))
        ELSE [state |-> step.state,
              call |-> [call EXCEPT !.rng = step.rng, !.snapshots = snapshots,
                                    !.decision_count = @ + 1]])))

\* generate_scenario_with_filters: the head of the attempt loop, where an
\* attempt's generate_scenario call starts, and the return after the loop:
\* [state, call]
AttemptStep(s, call) ==
    IF call.attempt < call.max_attempts
    THEN
        Let(WrappingAddU64(call.params.seed, call.attempt * 1000), LAMBDA attempt_seed :
        Let(create_initial_state(create_rng_from_seed(attempt_seed)), LAMBDA initial :
        [state |-> initial,
         call |-> [call EXCEPT
            !.pc = "stage", !.attempt_seed = attempt_seed,
            !.rng = RngAfterFill([c \in Colors |-> TILES_PER_COLOR],
                                 create_rng_from_seed(attempt_seed), 0, 0),
            !.snapshots = <<>>, !.decision_count = 0]]))
    ELSE [state |-> s,
          call |-> [call EXCEPT
            !.pc = "returned",
            !.result = IF call.best_stage_matching_state.code = "OK"
                       THEN call.best_stage_matching_state
                       ELSE Err("MAX_ATTEMPTS_EXCEEDED")]]

BeginAttempt ==
    /\ returned.pc = "attempt"
    /\ \E next \in {AttemptStep(state, returned)} :
            /\ state' = next.state
            /\ returned' = next.call
    /\ UNCHANGED <<before, input, last, calls, center_takes, listed>>

\* generate_scenario: the test of the play-forward loop and the round limit
\* below it
CheckStage ==
    /\ returned.pc = "stage"
    /\ returned' =
            IF compute_game_stage(state) = returned.params.target_game_stage
            THEN [returned EXCEPT !.pc = "sample"]
            ELSE IF state.round_number > 10
            THEN Generated(state, returned, Err("NO_POLICY_ACTION")).call
            ELSE [returned EXCEPT !.pc = "round"]
    /\ UNCHANGED <<state, before, input, last, calls, center_takes, listed>>

\* generate_scenario: one decision of the round being played forward, or
\* the round's resolution, whose refill draws from the thread's generator
PlayForward ==
    /\ returned.pc = "round"
    /\ \E next \in {RoundStep(state, returned)} :
            /\ state' = next.state
            /\ returned' = next.call
    /\ UNCHANGED <<before, input, last, calls, center_takes, listed>>

\* generate_scenario: one decision of the sampling loop, or the selection
\* among the snapshots; target_round_stage is read here for the first time
Sample(target_round_stage) ==
    /\ returned.pc = "sample"
    /\ "target_round_stage" \notin returned.unread
            => target_round_stage = returned.params.target_round_stage
    /\ \E next \in {SampleStep(state, [returned EXCEPT
                            !.params.target_round_stage = target_round_stage])} :
            /\ state' = next.state
            /\ returned' = IF next.call.pc = "generated"
                           THEN [next.call EXCEPT !.unread = @ \ {"target_round_stage"}]
                           ELSE [next.call EXCEPT !.params = returned.params]
    /\ UNCHANGED <<before, input, last, calls, center_takes, listed>>

\* FinishStep that keeps the first state generated as the fallback
FinishStep_keeps_first(call, filter_config) ==
    Let([call EXCEPT !.attempts = Append(@, [seed |-> call.attempt_seed,
                                             generated |-> call.generated])],
        LAMBDA logged :
    IF call.generated.code # "OK"
    THEN [logged EXCEPT !.pc = "attempt", !.attempt = @ + 1]
    ELSE IF apply_quality_filters(call.generated.new_state, filter_config, call.order) = "OK"
    THEN [logged EXCEPT !.pc = "returned", !.filter_config = filter_config,
                        !.unread = @ \ {"filter_config"},
                        !.best_stage_matching_state = call.generated,
                        !.result = call.generated]
    ELSE [logged EXCEPT !.pc = "attempt", !.attempt = @ + 1,
                        !.filter_config = filter_config,
                        !.unread = @ \ {"filter_config"},
                        !.best_stage_matching_state =
                            IF @.code = "OK" THEN @ ELSE call.generated])

\* generate_scenario_with_filters: the rest of the attempt loop's body once
\* generate_scenario returned
FinishStep(call, filter_config) ==
    Let([call EXCEPT !.attempts = Append(@, [seed |-> call.attempt_seed,
                                             generated |-> call.generated])],
        LAMBDA logged :
    IF call.generated.code # "OK"
    THEN [logged EXCEPT !.pc = "attempt", !.attempt = @ + 1]
    ELSE IF apply_quality_filters(call.generated.new_state, filter_config, call.order) = "OK"
    THEN [logged EXCEPT !.pc = "returned", !.filter_config = filter_config,
                        !.unread = @ \ {"filter_config"},
                        !.best_stage_matching_state = call.generated,
                        !.result = call.generated]
    ELSE [logged EXCEPT !.pc = "attempt", !.attempt = @ + 1,
                        !.filter_config = filter_config,
                        !.unread = @ \ {"filter_config"},
                        !.best_stage_matching_state = call.generated])

\* filter_config is read here for the first time
FinishAttempt(filter_config) ==
    /\ returned.pc = "generated"
    /\ returned.generated.code = "OK" /\ "filter_config" \notin returned.unread
            => filter_config = returned.filter_config
    /\ returned' = FinishStep(returned, filter_config)
    /\ UNCHANGED <<state, before, input, last, calls, center_takes, listed>>

\* a call of generate_scenario_with_filters on entry; the arguments read
\* later in the call are drawn where the code first reads them
InitGen ==
    /\ state = new_test_state
    /\ before = state
    /\ input = state
    /\ last = Call("generate_scenario_with_filters", NoAction, "OK")
    /\ calls = 0
    /\ center_takes = 0
    /\ listed = NothingListed
    /\ \E target_game_stage \in {"Early", "Mid", "Late"},
          policy_mix \in {AllRandom, AllGreedy, Mixed(70)},
          seed \in Seeds, max_attempts \in 0 .. 2, order \in IterationOrders,
          thread_rng \in ThreadRngStates :
            returned = GeneratorCall(
                GeneratorParams(target_game_stage, NoRoundStage, policy_mix, seed),
                FilterConfig(6, 2, TRUE, 50), max_attempts, order, thread_rng)

NextGen ==
    \/ BeginAttempt
    \/ CheckStage
    \/ PlayForward
    \/ \E target_round_stage \in {NoRoundStage, "Start", "Mid", "End"} :
            Sample(target_round_stage)
    \* the default filters, and filters no state passes
    \/ \E filter_config \in {FilterConfig(6, 2, TRUE, 50), FilterConfig(100, 2, TRUE, 50)} :
            FinishAttempt(filter_config)

SpecGen == InitGen /\ [][NextGen]_vars

----------------------------------------------------------------------------
(* The scoring functions on values a caller hands them *)

\* the longest floor line handed in
MaxFloorTiles == 9

\* the largest |delta_ev| handed in, in hundredths
MaxDelta == 300

\* a cell, the cells of its row and of its column in every combination, and
\* the rest of the wall empty or full: the score reads nothing else
WallInputs ==
    {[kind |-> "wall", row |-> row, col |-> col,
      wall |-> [r \in Rows |-> [c \in Cols |->
                    IF r = row /\ c = col THEN TRUE
                    ELSE IF r = row THEN c \in row_cells
                    ELSE IF c = col THEN r \in col_cells
                    ELSE rest]]] :
        row \in Rows, col \in Cols, rest \in BOOLEAN,
        row_cells \in SUBSET Cols, col_cells \in SUBSET Rows}

FloorInputs ==
    {[kind |-> "floor",
      player |-> [NewPlayerBoard EXCEPT
                    !.floor_line = [tiles |-> [i \in 1 .. n |-> ALL_COLORS[((i + shift) % 5) + 1]],
                                    has_first_player_token |-> token]]] :
        n \in 0 .. MaxFloorTiles, shift \in 0 .. 4, token \in BOOLEAN}

DeltaInputs == {[kind |-> "delta", delta_ev |-> d] : d \in -MaxDelta .. MaxDelta}

CellInputs == {[kind |-> "cell", row |-> row, col |-> col] : row \in Rows, col \in Cols}

ColorInputs == {[kind |-> "color", row |-> row, color |-> color] : row \in Rows, color \in Colors}

InitScoring ==
    /\ state = new_test_state
    /\ before = state
    /\ input \in WallInputs \cup FloorInputs \cup DeltaInputs \cup CellInputs \cup ColorInputs
    /\ last = Call("host_values", NoAction, "OK")
    /\ calls = 0
    /\ center_takes = 0
    /\ listed = NothingListed
    /\ returned = NothingReturned

\* calculate_wall_tile_score(&wall, row, col) on a true cell
CalculateWallTileScore ==
    /\ calls = 0
    /\ input.kind = "wall"
    /\ input.wall[input.row][input.col]
    /\ returned' = [score |-> calculate_wall_tile_score(input.wall, input.row, input.col)]
    /\ last' = Call("calculate_wall_tile_score", NoAction, "OK")
    /\ calls' = 1
    /\ UNCHANGED <<state, before, input, center_takes, listed>>

\* calculate_floor_penalty(&player.floor_line)
CalculateFloorPenalty ==
    /\ calls = 0
    /\ input.kind = "floor"
    /\ returned' = [penalty |-> calculate_floor_penalty(input.player.floor_line)]
    /\ last' = Call("calculate_floor_penalty", NoAction, "OK")
    /\ calls' = 1
    /\ UNCHANGED <<state, before, input, center_takes, listed>>

\* calculate_floor_penalty_for_player(&player)
CalculateFloorPenaltyForPlayer ==
    /\ calls = 0
    /\ input.kind = "floor"
    /\ returned' = [penalty |-> calculate_floor_penalty_for_player(input.player)]
    /\ last' = Call("calculate_floor_penalty_for_player", NoAction, "OK")
    /\ calls' = 1
    /\ UNCHANGED <<state, before, input, center_takes, listed>>

\* compute_grade(delta_ev)
ComputeGrade ==
    /\ calls = 0
    /\ input.kind = "delta"
    /\ returned' = [grade |-> compute_grade(input.delta_ev)]
    /\ last' = Call("compute_grade", NoAction, "OK")
    /\ calls' = 1
    /\ UNCHANGED <<state, before, input, center_takes, listed>>

\* get_wall_color(row, col)
GetWallColor ==
    /\ calls = 0
    /\ input.kind = "cell"
    /\ returned' = [color |-> get_wall_color(input.row, input.col)]
    /\ last' = Call("get_wall_color", NoAction, "OK")
    /\ calls' = 1
    /\ UNCHANGED <<state, before, input, center_takes, listed>>

\* get_wall_column_for_color(row, color)
GetWallColumnForColor ==
    /\ calls = 0
    /\ input.kind = "color"
    /\ returned' = [col |-> get_wall_column_for_color(input.row, input.color)]
    /\ last' = Call("get_wall_column_for_color", NoAction, "OK")
    /\ calls' = 1
    /\ UNCHANGED <<state, before, input, center_takes, listed>>

NextScoring ==
    CalculateWallTileScore \/ CalculateFloorPenalty \/ CalculateFloorPenaltyForPlayer
        \/ ComputeGrade \/ GetWallColor \/ GetWallColumnForColor

SpecScoring == InitScoring /\ [][NextScoring]_vars

----------------------------------------------------------------------------
(* Properties *)

Range(seq) == {seq[i] : i \in 1 .. Len(seq)}

Copies(color, n) == [i \in 1 .. n |-> color]

\* (ii) of the global invariants, and the capacity bound
PatternLineWellFormed(pattern_line) ==
    /\ pattern_line.count_filled <= pattern_line.capacity
    /\ (pattern_line.color # NoColor) <=> (pattern_line.count_filled > 0)

\* (ii) and (iii) of the global invariants for every seat and row
PatternLineInvariants(s) ==
    \A p \in Seats : \A r \in Rows :
        LET pattern_line == s.players[p].pattern_lines[r]
        IN  /\ PatternLineWellFormed(pattern_line)
            /\ pattern_line.color # NoColor =>
                 ~s.players[p].wall[r][get_wall_column_for_color(r, pattern_line.color)]

GlobalInvariants(s) ==
    /\ count_total_tiles(s) = 100
    /\ s.active_player_id \in Seats
    /\ PatternLineInvariants(s)

AppliedOk == last.op = "apply_action" /\ last.code = "OK"
ResolvedOk == last.op = "resolve_end_of_round" /\ last.code = "OK"

\* C1: in every state reached from the generator's initial state by
\* successful apply_action and resolve_end_of_round calls, in any
\* interleaving, the tiles in bag, lid, factories, centre, pattern lines,
\* walls and floor lines number 100.
C1_TileConservation == count_total_tiles(state) = 100

\* C2 as stated: from a state satisfying the global invariants, an action
\* that list_legal_actions returns for either seat is accepted by
\* apply_action and the new state satisfies conservation and the
\* pattern-line invariants.
C2_LegalForAnySeatApplies ==
    (/\ last.op = "apply_action"
     /\ GlobalInvariants(before)
     /\ \E p \in Seats, order \in IterationOrders :
            last.action \in Range(list_legal_actions(before, p, order)))
    => (last.code = "OK" /\ count_total_tiles(state) = 100 /\ PatternLineInvariants(state))

\* C2 amended: from a state satisfying the global invariants, an action that
\* list_legal_actions returns for the active seat is accepted by apply_action
\* and the new state satisfies conservation and the pattern-line invariants.
C2_LegalForActiveSeatApplies ==
    (/\ last.op = "apply_action"
     /\ GlobalInvariants(before)
     /\ \E order \in IterationOrders :
            last.action \in Range(list_legal_actions(before, before.active_player_id, order)))
    => (last.code = "OK" /\ count_total_tiles(state) = 100 /\ PatternLineInvariants(state))

C2_Witness ==
    /\ AppliedOk
    /\ GlobalInvariants(before)
    /\ last.action.destination.kind = "PatternLine"
    /\ last.action \in Range(list_legal_actions(before, before.active_player_id, ALL_COLORS))
    /\ before.players[0].pattern_lines # before.players[1].pattern_lines

RECURSIVE SumFirst(_, _)
SumFirst(seq, n) == IF n = 0 THEN 0 ELSE seq[n] + SumFirst(seq, n - 1)

FloorPenaltyOf(floor_line) ==
    SumFirst(<<-1, -1, -2, -2, -2, -3, -3>>,
             Min(7, Len(floor_line.tiles) + IF floor_line.has_first_player_token THEN 1 ELSE 0))

\* max(0, tiled + penalty) over the integers, for a penalty in -14 .. 0
ClampedSum(tiled, penalty) == IF tiled <= 0 THEN 0 ELSE Max(0, tiled + penalty)

\* C4: whatever the scores, floor lines and pattern lines on entry, both
\* scores in the state resolve_end_of_round returns are >= 0, each being
\* max(0, score after wall placements + floor penalty).
C4_ScoreIsClampedSum ==
    ResolvedOk =>
        \A p \in Seats :
            LET tiled == resolve_pattern_lines(before, FALSE).state.players[p].score
                penalty == FloorPenaltyOf(before.players[p].floor_line)
            IN  /\ state.players[p].score >= 0
                /\ state.players[p].score = ClampedSum(tiled, penalty)

FirstFailingCheck(s, action) ==
    LET player == s.players[s.active_player_id]
        row == action.destination.row
        held == IF action.source.kind = "Factory"
                THEN Get(s.factories[action.source.idx], action.color)
                ELSE Get(s.center.tiles, action.color)
    IN  IF action.source.kind = "Factory" /\ action.source.idx \notin 0 .. 4
        THEN "INVALID_SOURCE"
        ELSE IF held = 0 THEN "SOURCE_EMPTY"
        ELSE IF action.destination.kind = "Floor" THEN "OK"
        ELSE IF row >= 5 THEN "INVALID_DESTINATION"
        ELSE IF player.pattern_lines[row].count_filled = player.pattern_lines[row].capacity
        THEN "PATTERN_LINE_COMPLETE"
        ELSE IF /\ player.pattern_lines[row].count_filled > 0
                /\ player.pattern_lines[row].color \notin {NoColor, action.color}
        THEN "COLOR_MISMATCH"
        ELSE IF player.wall[row][WallColumnTable[row][action.color]]
        THEN "WALL_CONFLICT"
        ELSE "OK"

ErrorCodes ==
    {"INVALID_SOURCE", "SOURCE_EMPTY", "INVALID_DESTINATION",
     "PATTERN_LINE_COMPLETE", "COLOR_MISMATCH", "WALL_CONFLICT"}

Rejected == last.op = "apply_action" /\ last.code \notin {"OK", "PANIC"}

\* C6: when apply_action returns an error, its code is that of the first
\* failing check in the order INVALID_SOURCE, SOURCE_EMPTY,
\* INVALID_DESTINATION, PATTERN_LINE_COMPLETE, COLOR_MISMATCH, WALL_CONFLICT;
\* WALL_CONFLICT comes only with the active seat's wall cell of the colour
\* true, and every error carries one of these six codes.
C6_FirstFailingCheck ==
    Rejected =>
        /\ last.code \in ErrorCodes
        /\ last.code = FirstFailingCheck(before, last.action)
        /\ last.code = "WALL_CONFLICT" =>
             before.players[before.active_player_id]
                 .wall[last.action.destination.row]
                      [WallColumnTable[last.action.destination.row][last.action.color]]

\* a colour mismatch reported although the wall cell is taken as well
C6_Witness ==
    /\ Rejected
    /\ last.code = "COLOR_MISMATCH"
    /\ before.players[before.active_player_id]
           .wall[last.action.destination.row]
                [WallColumnTable[last.action.destination.row][last.action.color]]

SourcesOf(s) == {Factory(i) : i \in FactoryIds} \cup {Center}

Holds(s, source, color) ==
    IF source.kind = "Factory" THEN Get(s.factories[source.idx], color) > 0
    ELSE Get(s.center.tiles, color) > 0

\* the legal triples of seat p as the rules describe them
LegalSet(s, p) ==
    LET board == s.players[p]
        open(row, color) ==
            /\ board.pattern_lines[row].count_filled < board.pattern_lines[row].capacity
            /\ \/ board.pattern_lines[row].count_filled = 0
               \/ board.pattern_lines[row].color = color
            /\ ~board.wall[row][WallColumnTable[row][color]]
    IN  {DraftAction(source, color, Floor) :
            <<source, color>> \in {sc \in SourcesOf(s) \X Colors : Holds(s, sc[1], sc[2])}}
        \cup
        {DraftAction(x[1], x[2], PatternLine(x[3])) :
            x \in {y \in SourcesOf(s) \X Colors \X Rows :
                      Holds(s, y[1], y[2]) /\ open(y[3], y[2])}}

NoDuplicates(seq) == \A i, j \in 1 .. Len(seq) : seq[i] = seq[j] => i = j

TokenMoved(s) == [s EXCEPT !.center.has_first_player_token = ~@]

TableEmpty(s) == \A source \in SourcesOf(s), color \in Colors : ~Holds(s, source, color)

LinesWellFormed(s) ==
    \A p \in Seats, r \in Rows : PatternLineWellFormed(s.players[p].pattern_lines[r])

Listed == last.op = "list_legal_actions"

AppliedFromFactory == AppliedOk /\ last.action.source.kind = "Factory"

\* C8: after a successful take from Factory(i), factory i is empty, the
\* centre's count of every other colour has grown by factory i's former
\* count of it, and the centre's count of the chosen colour is unchanged.
C8_FactorySpill ==
    AppliedFromFactory =>
        LET i == last.action.source.idx
        IN  /\ state.factories[i] = EmptyMultiset
            /\ \A c \in Colors :
                Get(state.center.tiles, c) =
                    Get(before.center.tiles, c)
                        + (IF c = last.action.color THEN 0 ELSE Get(before.factories[i], c))

\* a spill onto a centre that already held the spilled colour and the
\* chosen colour
C8_Witness ==
    /\ AppliedFromFactory
    /\ Get(before.center.tiles, last.action.color) > 0
    /\ \E c \in Colors \ {last.action.color} :
        /\ Get(before.center.tiles, c) > 0
        /\ Get(before.factories[last.action.source.idx], c) > 0

TokenFlags(s) ==
    <<s.center.has_first_player_token,
      s.players[0].floor_line.has_first_player_token,
      s.players[1].floor_line.has_first_player_token>>

\* C9: the first successful Center take of a round moves the first-player
\* token from the centre to the acting seat's floor line; every later Center
\* take of the round and every Factory take leave the three token flags as
\* they were.
C9_TokenMovesOnce ==
    AppliedOk =>
        IF last.action.source = Center /\ center_takes = 1
        THEN /\ TokenFlags(before) = <<TRUE, FALSE, FALSE>>
             /\ TokenFlags(state) =
                    <<FALSE, before.active_player_id = 0, before.active_player_id = 1>>
        ELSE TokenFlags(state) = TokenFlags(before)

\* the second Center take of a round, by the seat that does not hold the token
C9_Witness ==
    /\ AppliedOk
    /\ last.action.source = Center
    /\ center_takes = 2
    /\ ~before.players[before.active_player_id].floor_line.has_first_player_token
    /\ TokenFlags(state) # <<TRUE, FALSE, FALSE>>

\* the tiles of the chosen colour the source held
Taken(s, action) ==
    IF action.source.kind = "Factory"
    THEN Get(s.factories[action.source.idx], action.color)
    ELSE Get(s.center.tiles, action.color)

\* C10: a successful take of n tiles to PatternLine(row) raises the line's
\* count_filled by min(n, capacity - count_filled), sets its colour and
\* appends the other n - min(...) tiles to the end of the acting seat's floor
\* line; with destination Floor all n tiles are appended; the floor line
\* keeps every tile it had, beyond seven too.
C10_PlacementAndOverflow ==
    AppliedOk =>
        LET p == before.active_player_id
            n == Taken(before, last.action)
            color == last.action.color
            old_floor == before.players[p].floor_line.tiles
            new_floor == state.players[p].floor_line.tiles
        IN  IF last.action.destination.kind = "PatternLine"
            THEN LET row == last.action.destination.row
                     old_line == before.players[p].pattern_lines[row]
                     new_line == state.players[p].pattern_lines[row]
                     placed == Min(n, old_line.capacity - old_line.count_filled)
                 IN  /\ new_line.count_filled = old_line.count_filled + placed
                     /\ new_line.color = color
                     /\ new_floor = old_floor \o Copies(color, n - placed)
                     /\ \A r \in Rows \ {row} :
                            state.players[p].pattern_lines[r] = before.players[p].pattern_lines[r]
            ELSE /\ new_floor = old_floor \o Copies(color, n)
                 /\ state.players[p].pattern_lines = before.players[p].pattern_lines

\* an overflow onto a floor line that then holds more than seven tiles
C10_Witness ==
    /\ AppliedOk
    /\ last.action.destination.kind = "PatternLine"
    /\ Len(state.players[before.active_player_id].floor_line.tiles)
           > Len(before.players[before.active_player_id].floor_line.tiles)
    /\ Len(state.players[before.active_player_id].floor_line.tiles) > FLOOR_LINE_SLOTS
    /\ state.players[before.active_player_id].pattern_lines[last.action.destination.row].count_filled
           > before.players[before.active_player_id].pattern_lines[last.action.destination.row].count_filled

LinesResolved == last.op = "resolve_pattern_lines"

IsComplete(pattern_line) == pattern_line.count_filled = pattern_line.capacity

CellOf(board, row) == <<row, WallColumnTable[row][board.pattern_lines[row].color]>>

\* rows of a board whose line is complete
CompleteRows(board) == {r \in Rows : IsComplete(board.pattern_lines[r])}

\* rows of a board whose line is complete and whose wall cell is still free
TilingRows(board) ==
    {r \in CompleteRows(board) : ~board.wall[r][CellOf(board, r)[2]]}

\* the wall once the lines of `rows` up to row `upto` have put their tile
WallAfter(board, rows, upto) ==
    [r \in Rows |-> [c \in Cols |->
        board.wall[r][c] \/ (r \in rows /\ r <= upto /\ CellOf(board, r) = <<r, c>>)]]

\* the cells of the unbroken run of true cells through (row, col), along the
\* row and along the column
RowRun(wall, row, col) ==
    {c \in Cols : \A x \in Cols : (Min(c, col) <= x /\ x <= Max(c, col)) => wall[row][x]}

ColumnRun(wall, row, col) ==
    {r \in Rows : \A x \in Rows : (Min(r, row) <= x /\ x <= Max(r, row)) => wall[x][col]}

AdjacencyScore(wall, row, col) ==
    LET h == Cardinality(RowRun(wall, row, col))
        v == Cardinality(ColumnRun(wall, row, col))
    IN  IF h = 1 /\ v = 1 THEN 1
        ELSE (IF h > 1 THEN h ELSE 0) + (IF v > 1 THEN v ELSE 0)

\* the score after the lines of `rows` up to row `upto` have scored, each on
\* the wall as it stands right after its own placement
RECURSIVE ScoreAfter(_, _, _)
ScoreAfter(board, rows, upto) ==
    IF upto < 0 THEN board.score
    ELSE IF upto \in rows
    THEN WrappingAddI32(ScoreAfter(board, rows, upto - 1),
                        AdjacencyScore(WallAfter(board, rows, upto), upto,
                                       CellOf(board, upto)[2]))
    ELSE ScoreAfter(board, rows, upto - 1)

\* tiles of a colour that the lines of `rows` send to the lid
RECURSIVE Discarded(_, _, _, _)
Discarded(board, rows, color, row) ==
    IF row >= 5 THEN 0
    ELSE (IF row \in rows /\ board.pattern_lines[row].color = color
          THEN board.pattern_lines[row].capacity - 1 ELSE 0)
         + Discarded(board, rows, color, row + 1)

\* the outcome of resolve_pattern_lines when the lines of rows(board) tile
ResolvedAs(rows(_)) ==
    /\ \A p \in Seats :
        LET was == before.players[p]
            now == state.players[p]
        IN  /\ now.wall = WallAfter(was, rows(was), 4)
            /\ now.score = ScoreAfter(was, rows(was), 4)
            /\ now.floor_line = was.floor_line
            /\ \A r \in Rows :
                now.pattern_lines[r] =
                    IF IsComplete(was.pattern_lines[r])
                    THEN Line(was.pattern_lines[r].capacity, NoColor, 0)
                    ELSE was.pattern_lines[r]
    /\ \A c \in Colors :
        Get(state.lid, c) =
            Get(before.lid, c) + Discarded(before.players[0], rows(before.players[0]), c, 0)
                               + Discarded(before.players[1], rows(before.players[1]), c, 0)
    /\ state.bag = before.bag /\ state.factories = before.factories
    /\ state.center = before.center

\* C11 as stated: resolve_pattern_lines takes seat 0 then seat 1, rows 0..4
\* in order; every complete line puts a tile on the wall cell of its colour,
\* adds the adjacency score of that cell on the wall as it then stands, adds
\* capacity - 1 tiles to the lid and is reset; incomplete lines, and the wall
\* and lid with respect to them, are unchanged.
C11_EveryCompleteLineTiles == LinesResolved => ResolvedAs(CompleteRows)

\* C11 amended: the same for every complete line whose wall cell is false on
\* entry; a complete line whose wall cell is already true is reset without
\* placement, score or lid tiles.
C11_FreeCompleteLinesTile == LinesResolved => ResolvedAs(TilingRows)

\* two lines of one seat tile cells one above the other while a third line
\* stays incomplete
C11_Witness ==
    /\ LinesResolved
    /\ \E p \in Seats :
        LET was == before.players[p]
        IN  /\ {0, 1} \subseteq TilingRows(was)
            /\ CellOf(was, 0)[2] = CellOf(was, 1)[2]
            /\ state.players[p].score > was.score + 2
            /\ \E r \in Rows : /\ was.pattern_lines[r].count_filled > 0
                               /\ state.players[p].pattern_lines[r] = was.pattern_lines[r]

CountIn(tiles, color) == Len(SelectSeq(tiles, LAMBDA x : x = color))

\* the lid once wall tiling has discarded and the floor lines are cleared
LidAfterCleanup(s, color) ==
    Get(s.lid, color)
        + Discarded(s.players[0], TilingRows(s.players[0]), color, 0)
        + Discarded(s.players[1], TilingRows(s.players[1]), color, 0)
        + CountIn(s.players[0].floor_line.tiles, color)
        + CountIn(s.players[1].floor_line.tiles, color)

HasFullRow(s) == \E p \in Seats, r \in Rows : \A c \in Cols : s.players[p].wall[r][c]

BagSize(s) ==
    Get(s.bag, "Blue") + Get(s.bag, "Yellow") + Get(s.bag, "Red") + Get(s.bag, "Black")
        + Get(s.bag, "White")

OnFactories(s, color) ==
    Get(s.factories[0], color) + Get(s.factories[1], color) + Get(s.factories[2], color)
        + Get(s.factories[3], color) + Get(s.factories[4], color)

\* floor lines, token and the seat to move after resolve_end_of_round
FloorsClearedTokenBack ==
    /\ \A p \in Seats :
        /\ state.players[p].floor_line.tiles = <<>>
        /\ ~state.players[p].floor_line.has_first_player_token
    /\ state.center.has_first_player_token
    /\ state.active_player_id =
        IF before.players[0].floor_line.has_first_player_token THEN 0
        ELSE IF before.players[1].floor_line.has_first_player_token THEN 1
        ELSE before.active_player_id

\* C12 as stated: in the state resolve_end_of_round returns both floor lines
\* are empty with every former floor tile added to the lid, no seat holds
\* the token, the centre holds it, and the seat to move is the one that held
\* the token on entry (seat 0 if both did, the previous one if neither did).
C12_FloorTilesInReturnedLid ==
    ResolvedOk =>
        /\ FloorsClearedTokenBack
        /\ \A c \in Colors : Get(state.lid, c) = LidAfterCleanup(before, c)

\* C12 amended: the same, with the former floor tiles in the returned lid
\* when the game ended or the bag held at least 20 tiles; when the refill
\* found fewer than 20 tiles in the bag, the whole lid, the former floor tiles
\* included, went into the bag before the deal and the returned lid is empty.
C12_FloorTilesToLidThenRefill ==
    ResolvedOk =>
        /\ FloorsClearedTokenBack
        /\ IF HasFullRow(state) \/ BagSize(before) >= 20
           THEN \A c \in Colors : Get(state.lid, c) = LidAfterCleanup(before, c)
           ELSE \A c \in Colors :
                /\ Get(state.lid, c) = 0
                /\ Get(state.bag, c) + OnFactories(state, c)
                      = Get(before.bag, c) + LidAfterCleanup(before, c)

\* both seats carried the token flag and both had tiles on the floor
C12_Witness ==
    /\ ResolvedOk
    /\ \A p \in Seats : /\ before.players[p].floor_line.has_first_player_token
                        /\ before.players[p].floor_line.tiles # <<>>
    /\ before.active_player_id = 1
    /\ state.active_player_id = 0

FactoryTiles(s) ==
    OnFactories(s, "Blue") + OnFactories(s, "Yellow") + OnFactories(s, "Red")
        + OnFactories(s, "Black") + OnFactories(s, "White")

LidSize(s) ==
    Get(s.lid, "Blue") + Get(s.lid, "Yellow") + Get(s.lid, "Red") + Get(s.lid, "Black")
        + Get(s.lid, "White")

\* the tiles a refill after this call's cleanup can draw from
Supply(s) ==
    IF BagSize(s) >= 20 THEN BagSize(s)
    ELSE BagSize(s) + LidAfterCleanup(s, "Blue") + LidAfterCleanup(s, "Yellow")
            + LidAfterCleanup(s, "Red") + LidAfterCleanup(s, "Black")
            + LidAfterCleanup(s, "White")

\* C13: resolve_end_of_round ends the game exactly when, after wall tiling,
\* some wall has a row of five true cells: then the factories are not
\* refilled, the bag is not drawn from and round_number is unchanged; in
\* every other case round_number increases by exactly 1 and the factories
\* are refilled.
C13_GameEndOrNextRound ==
    ResolvedOk =>
        IF HasFullRow(state)
        THEN /\ state.factories = before.factories
             /\ state.bag = before.bag
             /\ state.round_number = before.round_number
        ELSE /\ state.round_number = before.round_number + 1
             /\ FactoryTiles(state) = Min(20, Supply(before))
             /\ BagSize(state) = Supply(before) - FactoryTiles(state)

Refilled == last.op = "refill_factories_with_rng"

FactorySize(s, i) ==
    Get(s.factories[i], "Blue") + Get(s.factories[i], "Yellow") + Get(s.factories[i], "Red")
        + Get(s.factories[i], "Black") + Get(s.factories[i], "White")

\* C14: refill_factories_with_rng moves the whole lid into the bag exactly
\* when the bag holds fewer than 20 tiles on entry (otherwise the lid is
\* untouched), then deals min(20, tiles then in the bag) tiles, filling the
\* factories in index order with 4 tiles each until the bag is empty: no
\* factory ends with more than 4 tiles, at most one is partially filled and
\* every factory after it is empty.
C14_RefillDealsInIndexOrder ==
    Refilled =>
        LET drained == BagSize(before) < 20
            moved(c) == IF drained THEN Get(before.lid, c) ELSE 0
            available == BagSize(before) + (IF drained THEN LidSize(before) ELSE 0)
            dealt == Min(20, available)
        IN  /\ IF drained THEN LidSize(state) = 0 ELSE state.lid = before.lid
            /\ FactoryTiles(state) = dealt
            /\ \A i \in FactoryIds : FactorySize(state, i) = Min(4, Max(0, dealt - 4 * i))
            /\ \A c \in Colors :
                Get(state.bag, c) + OnFactories(state, c) = Get(before.bag, c) + moved(c)

\* a refill that took the lid and ran out in the second factory
C14_Witness ==
    /\ Refilled
    /\ BagSize(before) < 20 /\ LidSize(before) > 0
    /\ FactorySize(state, 0) = 4
    /\ FactorySize(state, 1) \in 1 .. 3
    /\ FactorySize(state, 2) = 0
    /\ BagSize(state) = 0

\* a refill from a bag of 20 tiles or more beside a lid that holds tiles
C14_WitnessLidKept ==
    /\ Refilled
    /\ BagSize(before) >= 20 /\ LidSize(before) > 0
    /\ state.lid = before.lid

Drawn == last.op = "draw_random_tile_from_bag"

\* tiles of the first k colours of Blue, Yellow, Red, Black, White in a map
CumulativeCount(m, k) ==
    LET order == <<"Blue", "Yellow", "Red", "Black", "White">>
        count[j \in 0 .. k] == IF j = 0 THEN 0 ELSE count[j - 1] + Get(m, order[j])
    IN  count[k]

\* the colour whose cumulative range holds t
ColourAt(m, t) ==
    LET order == <<"Blue", "Yellow", "Red", "Black", "White">>
    IN  order[CHOOSE k \in 1 .. 5 : CumulativeCount(m, k - 1) <= t /\ t < CumulativeCount(m, k)]

\* the same contents in a map that has an entry for every colour
WithAllKeys(m) == [c \in Colors |-> Get(m, c)]

\* C15: a draw depends only on the bag's per-colour counts and the number
\* drawn from the rng: for target t in [0, total) it returns the colour whose
\* cumulative range in the order Blue, Yellow, Red, Black, White contains t
\* and removes exactly one tile of it, and it returns none exactly when the
\* bag is empty; a refill of equal bag and lid contents held in other maps,
\* with the same rng sequence, produces identical factories.
C15_DrawByCumulativeRange ==
    /\ Drawn =>
        LET total == BagSize(before)
            t == NextRandom(returned.rng) % total
        IN  /\ returned.color = NoColor <=> total = 0
            /\ total = 0 => \A c \in Colors : Get(state.bag, c) = Get(before.bag, c)
            /\ total > 0 =>
                /\ returned.color = ColourAt(before.bag, t)
                /\ \A c \in Colors :
                    Get(state.bag, c)
                        = Get(before.bag, c) - (IF c = returned.color THEN 1 ELSE 0)
            /\ returned.color
                = draw_random_tile_from_bag(WithAllKeys(before.bag), returned.rng).color
    /\ Refilled =>
        LET other == [before EXCEPT !.bag = WithAllKeys(@), !.lid = WithAllKeys(@)]
        IN  state.factories = refill_factories_with_rng(other, returned.rng).factories

\* a draw of a colour that is not the first colour the bag holds
C15_Witness ==
    /\ Drawn
    /\ returned.color = "Red"
    /\ Get(before.bag, "Blue") > 0
    /\ Get(state.bag, "Red") = Get(before.bag, "Red") - 1

\* a draw from a bag whose only entry counts zero tiles
C15_WitnessNone ==
    /\ Drawn
    /\ returned.color = NoColor
    /\ DOMAIN before.bag # {}

Rolled == last.op = "simulate_rollout"

\* some factory or the centre holds a tile
TableHoldsTiles(s) ==
    \/ \E i \in FactoryIds, c \in Colors : Get(s.factories[i], c) > 0
    \/ \E c \in Colors : Get(s.center.tiles, c) > 0

\* C16: simulate_rollout fails with MaxActionsExceeded exactly when some
\* factory or the centre still holds tiles after max_actions actions have
\* been applied; a round that completes in exactly max_actions actions
\* succeeds; every Ok result has actions_simulated <= max_actions,
\* completed_normally = true, and a final_state that is the output of
\* resolve_end_of_round, whose players' scores are player_0_score and
\* player_1_score.
C16_MaxActionsExceededExactly ==
    Rolled =>
        LET result == returned.result
            max_actions == returned.config.max_actions
        IN  /\ result.code = "MAX_ACTIONS_EXCEEDED"
                <=> (result.actions_simulated = max_actions /\ TableHoldsTiles(result.drafted))
            /\ result.code = "OK" =>
                /\ result.actions_simulated <= max_actions
                /\ result.completed_normally
                /\ \E thread_rng \in ThreadRngStates :
                    result.final_state
                        = resolve_end_of_round(result.drafted, thread_rng,
                                               returned.debug_build).new_state
                /\ result.player_0_score = result.final_state.players[0].score
                /\ result.player_1_score = result.final_state.players[1].score

\* the same but for the first sentence, read with the test the code makes
C16_RestOfClaim ==
    Rolled =>
        LET result == returned.result
            max_actions == returned.config.max_actions
        IN  /\ result.code = "MAX_ACTIONS_EXCEEDED"
                <=> (result.actions_simulated = max_actions /\ ~is_round_complete(result.drafted))
            /\ result.code = "OK" =>
                /\ result.actions_simulated <= max_actions
                /\ result.completed_normally
                /\ \E thread_rng \in ThreadRngStates :
                    result.final_state
                        = resolve_end_of_round(result.drafted, thread_rng,
                                               returned.debug_build).new_state
                /\ result.player_0_score = result.final_state.players[0].score
                /\ result.player_1_score = result.final_state.players[1].score

\* a round that completed in exactly max_actions actions
C16_WitnessExactly ==
    /\ Rolled
    /\ returned.result.code = "OK"
    /\ returned.config.max_actions = 2
    /\ returned.result.actions_simulated = 2

\* the limit met with tiles on the table
C16_WitnessExceeded ==
    /\ Rolled
    /\ returned.result.code = "MAX_ACTIONS_EXCEEDED"
    /\ returned.config.max_actions = 2
    /\ TableHoldsTiles(returned.result.drafted)

\* what a caller compares of two rollouts
Outcome(result) ==
    IF result.code = "OK"
    THEN <<"OK", result.actions_simulated, result.player_0_score, result.player_1_score,
           result.final_state.players[0].wall, result.final_state.players[1].wall>>
    ELSE <<result.code>>

\* C17: for a fixed seed, policies and max_actions, two runs of
\* simulate_rollout on equal input states return the same actions_simulated,
\* the same two scores and the same two final walls, whatever the order in
\* which the tile maps enumerate their colours and whatever the unseeded
\* refill inside resolve_end_of_round draws.
C17_RolloutDeterministic ==
    Rolled =>
        \A order \in IterationOrders, thread_rng \in ThreadRngStates :
            Outcome(simulate_rollout(before, returned.config, order, thread_rng,
                                     returned.debug_build))
                = Outcome(returned.result)

\* two runs whose maps enumerate in the same order differ in nothing but
\* the refill
C17_SameOrderDeterministic ==
    Rolled =>
        \A thread_rng \in ThreadRngStates :
            Outcome(simulate_rollout(before, returned.config, returned.order, thread_rng,
                                     returned.debug_build))
                = Outcome(returned.result)

Evaluated == last.op = "evaluate_best_move"

\* best_action and best_action_ev are those of the earliest candidate of
\* maximal EV
BestOfCandidates(result) ==
    LET candidates == result.candidates
    IN  \E i \in 1 .. Len(candidates) :
            /\ candidates[i].action = result.best_action
            /\ candidates[i].ev = result.best_action_ev
            /\ \A j \in 1 .. Len(candidates) : ~F64Gt(candidates[j].ev, result.best_action_ev)
            /\ \A j \in 1 .. i - 1 : F64Gt(result.best_action_ev, candidates[j].ev)

\* C18: evaluate_best_move returns NO_LEGAL_ACTIONS when
\* list_legal_actions(state, seat) is empty, and for every state and seat
\* with a legal action it returns a result whose best_action is in that list
\* and whose best_action_ev is the maximum EV of its candidates, the
\* earliest evaluated candidate winning ties.
C18_BestMoveForEverySeat ==
    Evaluated =>
        LET legal_actions == list_legal_actions(before, returned.player_id, returned.order)
        IN  IF legal_actions = <<>> THEN returned.result.code = "NO_LEGAL_ACTIONS"
            ELSE /\ returned.result.code = "OK"
                 /\ returned.result.best_action \in Range(legal_actions)
                 /\ BestOfCandidates(returned.result)

\* the results evaluate_best_move does return are as described
C18_ReturnedResults ==
    Evaluated =>
        LET legal_actions == list_legal_actions(before, returned.player_id, returned.order)
        IN  /\ legal_actions = <<>> <=> returned.result.code = "NO_LEGAL_ACTIONS"
            /\ returned.result.code = "OK" =>
                /\ returned.result.best_action \in Range(legal_actions)
                /\ BestOfCandidates(returned.result)

Graded == last.op = "grade_user_action" /\ returned.result.code = "OK"

\* the EV the evaluation holds for the graded action, if it evaluated it
UserCandidateEv == FindCandidateEv(returned.best_result.candidates, returned.user_action)

Zero == F64(0, 0)

\* C19: when the user's action is one of the evaluation's candidates,
\* grade_user_action reuses that candidate's EV as user_action_ev, and
\* delta_ev = 0 holds if and only if the user's action is the evaluation's
\* best_action.
C19_ZeroDeltaOnlyForBestAction ==
    Graded /\ UserCandidateEv.some =>
        /\ returned.result.user_action_ev = Some(UserCandidateEv.value)
        /\ returned.result.delta_ev.value = Zero
            <=> returned.user_action = returned.best_result.best_action

\* C19 (amended): the candidate's EV is reused, delta_ev is that EV minus
\* best_action_ev, it is 0 for the best_action, and it is 0 exactly when
\* the candidate's EV equals best_action_ev, which a tied candidate that was
\* evaluated later does as well.
C19_ZeroDeltaForEqualEv ==
    Graded /\ UserCandidateEv.some =>
        /\ returned.result.user_action_ev = Some(UserCandidateEv.value)
        /\ returned.result.delta_ev
            = Some(F64Sub(UserCandidateEv.value, returned.best_result.best_action_ev))
        /\ returned.user_action = returned.best_result.best_action
            => returned.result.delta_ev.value = Zero
        /\ returned.result.delta_ev.value = Zero
            <=> UserCandidateEv.value = returned.best_result.best_action_ev

\* a tied candidate that is not the best_action was graded
C19_Witness ==
    /\ Graded
    /\ UserCandidateEv.some
    /\ returned.user_action # returned.best_result.best_action
    /\ returned.result.delta_ev.value = Zero

\* the best_action was graded, and so was a candidate of a lower EV
C19_WitnessBest ==
    /\ Graded
    /\ returned.user_action = returned.best_result.best_action

C19_WitnessLower ==
    /\ Graded
    /\ UserCandidateEv.some
    /\ returned.result.delta_ev.value # Zero

\* C20: for every legal user action the delta_ev grade_user_action returns
\* (user_action_ev minus best_action_ev) is <= 0, also when shortlisting or
\* the time budget kept the action out of the evaluated candidates.
C20_DeltaNeverPositive ==
    Graded => ~F64Gt(returned.result.delta_ev.value, Zero)

\* delta_ev is <= 0 for the actions the evaluation did evaluate
C20_DeltaOfCandidates ==
    Graded /\ UserCandidateEv.some => ~F64Gt(returned.result.delta_ev.value, Zero)

\* an action cut by the shortlist, and one cut by the clock, was graded
C20_WitnessShortlisted ==
    /\ Graded
    /\ ~UserCandidateEv.some
    /\ returned.best_result.metadata.completed_within_budget
    /\ returned.params.shortlist_size > 0

C20_WitnessOutOfTime ==
    /\ Graded
    /\ ~UserCandidateEv.some
    /\ ~returned.best_result.metadata.completed_within_budget

\* the candidates evaluate_best_move chose among: the legal actions, or the
\* shortlist of them
Shortlisted ==
    LET legal_actions == list_legal_actions(before, returned.player_id, returned.order)
        shortlist_size == returned.params.shortlist_size
    IN  IF shortlist_size > 0 /\ Len(legal_actions) > shortlist_size
        THEN shortlist_actions(before, legal_actions, shortlist_size)
        ELSE legal_actions

\* C21: the time budget is checked between candidates only: with a candidate
\* to evaluate the call never ends without one evaluated, even with a budget
\* of 0; every entry of candidates has rollouts_per_action rollouts;
\* rollouts_run = candidates_evaluated * rollouts_per_action; and
\* completed_within_budget holds exactly when every shortlisted candidate
\* was evaluated.
C21_TimeCheckBetweenCandidates ==
    Evaluated =>
        Let(Shortlisted, LAMBDA shortlisted :
        /\ shortlisted # <<>> => returned.result.code # "NO_LEGAL_ACTIONS"
        /\ returned.result.code = "OK" =>
            LET result == returned.result
                metadata == result.metadata
            IN  /\ metadata.candidates_evaluated >= 1
                /\ metadata.candidates_evaluated = Len(result.candidates)
                /\ \A i \in 1 .. Len(result.candidates) :
                        /\ result.candidates[i].rollouts = returned.params.rollouts_per_action
                        /\ result.candidates[i].action = shortlisted[i]
                /\ metadata.rollouts_run
                        = metadata.candidates_evaluated * returned.params.rollouts_per_action
                /\ metadata.completed_within_budget
                        <=> Len(result.candidates) = Len(shortlisted))

\* a budget of 0 let one of several candidates through, with all its rollouts
C21_Witness ==
    /\ Evaluated
    /\ returned.result.code = "OK"
    /\ returned.in_time = 0
    /\ returned.params.rollouts_per_action = 2
    /\ Len(Shortlisted) > 1
    /\ returned.result.metadata.candidates_evaluated = 1
    /\ ~returned.result.metadata.completed_within_budget

\* a < b as u64 values
U64Lt(a, b) == IF (a < 0) = (b < 0) THEN a < b ELSE a >= 0

\* evaluator_seed + k is a u64, and rollout_seed is it
IsSeedPlus(rollout_seed, evaluator_seed, k) ==
    /\ ~(evaluator_seed < 0 /\ evaluator_seed + k >= 0)
    /\ rollout_seed = evaluator_seed + k

\* the seeds of the rollouts of an evaluation, in the order they were run
RECURSIVE SeedsOf(_)
SeedsOf(candidates) ==
    IF candidates = <<>> THEN <<>> ELSE Head(candidates).seeds \o SeedsOf(Tail(candidates))

\* the candidates of the evaluation just returned, or of the one just graded
EvaluationCandidates ==
    IF last.op = "grade_user_action" THEN returned.best_result.candidates
    ELSE returned.result.candidates

EvaluationSeeds == SeedsOf(EvaluationCandidates)

EvaluatedOk ==
    \/ Evaluated /\ returned.result.code = "OK"
    \/ last.op = "grade_user_action"

\* C22: the k-th rollout of an evaluation, counted from 0 across the
\* candidates, is seeded with evaluator_seed + k, so the seeds strictly
\* increase and no two are equal; the i-th rollout of grade_user_action is
\* seeded with evaluator_seed + 1,000,000 + i.
C22_SeedsIncrease ==
    /\ EvaluatedOk =>
        /\ \A k \in 1 .. Len(EvaluationSeeds) :
                IsSeedPlus(EvaluationSeeds[k], returned.params.evaluator_seed, k - 1)
        /\ \A j, k \in 1 .. Len(EvaluationSeeds) :
                j < k => U64Lt(EvaluationSeeds[j], EvaluationSeeds[k])
    /\ Graded =>
        \A i \in 1 .. Len(returned.result.grading_seeds) :
            IsSeedPlus(returned.result.grading_seeds[i],
                       returned.params.evaluator_seed, 1000000 + (i - 1))

\* C22 (amended): the k-th rollout is seeded with evaluator_seed + k modulo
\* 2^64 and no two rollouts of an evaluation share a seed; the seeds
\* increase up to u64::MAX and go on from 0; the i-th rollout of
\* grade_user_action is seeded with evaluator_seed + 1,000,000 + i modulo
\* 2^64.
C22_SeedsWrap ==
    /\ EvaluatedOk =>
        /\ Len(EvaluationSeeds)
                = returned.params.rollouts_per_action * Len(EvaluationCandidates)
        /\ \A k \in 1 .. Len(EvaluationSeeds) :
                EvaluationSeeds[k]
                    = WrappingAddU64(returned.params.evaluator_seed, k - 1)
        /\ \A j, k \in 1 .. Len(EvaluationSeeds) :
                j < k => /\ EvaluationSeeds[j] # EvaluationSeeds[k]
                         /\ U64Lt(EvaluationSeeds[j], EvaluationSeeds[k])
                                \/ U64Lt(EvaluationSeeds[k], returned.params.evaluator_seed)
    /\ Graded =>
        /\ Len(returned.result.grading_seeds) = returned.params.rollouts_per_action
        /\ \A i \in 1 .. Len(returned.result.grading_seeds) :
                returned.result.grading_seeds[i]
                    = WrappingAddU64(returned.params.evaluator_seed, 1000000 + (i - 1))

\* an evaluation with the seed u64::MAX ran six rollouts and was followed by
\* a grading of two
C22_Witness ==
    /\ Graded
    /\ returned.params.evaluator_seed = U64Max
    /\ Len(EvaluationSeeds) = 6
    /\ Len(returned.result.grading_seeds) = 2

----------------------------------------------------------------------------
(* generate_scenario and generate_scenario_with_filters *)

\* the number a decimal text denotes
RECURSIVE DecimalValue(_)
DecimalValue(text) ==
    IF text = <<>> THEN 0
    ELSE 10 * DecimalValue(SubSeq(text, 1, Len(text) - 1))
            + (CHOOSE digit \in 0 .. 9 : DecimalDigits[digit + 1] = text[Len(text)])

\* text is the decimal text of seed: its digits and no others
IsDecimalTextOf(text, seed) ==
    /\ Len(text) >= 1
    /\ \A i \in 1 .. Len(text) : \E digit \in 0 .. 9 : DecimalDigits[digit + 1] = text[i]
    /\ Len(text) > 1 => text[1] # "0"
    /\ DecimalValue(text) = seed

\* a snapshot of the attempt fits what the call asked for
FitsRequest(snapshot) ==
    /\ snapshot.game_stage = returned.params.target_game_stage
    /\ returned.params.target_round_stage # NoRoundStage
            => snapshot.round_stage = returned.params.target_round_stage

\* result is a State of the stage and round stage asked for, tagged with
\* them and with the text of seed, on which the active seat has three
\* legal actions or more
MatchesRequest(result, seed) ==
    /\ compute_game_stage(result.new_state) = returned.params.target_game_stage
    /\ returned.params.target_round_stage # NoRoundStage
            => compute_round_stage(result.new_state) = returned.params.target_round_stage
    /\ result.scenario_game_stage = compute_game_stage(result.new_state)
    /\ result.draft_phase_progress = compute_round_stage(result.new_state)
    /\ Len(list_legal_actions(result.new_state, result.new_state.active_player_id,
                              returned.order)) >= 3
    /\ IsDecimalTextOf(result.scenario_seed, seed)

\* C23: generate_scenario returns Ok exactly when a snapshot it sampled has
\* the game stage asked for and, when one was asked for, the round stage
\* asked for; the State it returns is such a snapshot, the stages
\* recomputed from its walls and its table are the ones asked for and the
\* ones its tags name, its active seat has three legal actions or more,
\* and its scenario_seed is the decimal text of the seed the call was given.
C23_ReturnedStateMatchesRequest ==
    returned.pc = "generated" =>
        /\ returned.generated.code = "OK"
                <=> \E i \in 1 .. Len(returned.snapshots) : FitsRequest(returned.snapshots[i])
        /\ returned.generated.code = "OK" =>
                /\ MatchesRequest(returned.generated, returned.attempt_seed)
                /\ \E i \in 1 .. Len(returned.snapshots) :
                        /\ FitsRequest(returned.snapshots[i])
                        /\ returned.snapshots[i].state = returned.generated.new_state

\* a Mid-game state returned for a round stage that was asked for, though
\* the attempt also sampled snapshots of another round stage
C23_Witness ==
    /\ returned.pc = "generated"
    /\ returned.generated.code = "OK"
    /\ returned.params.target_game_stage = "Mid"
    /\ returned.params.target_round_stage = "End"
    /\ \E i \in 1 .. Len(returned.snapshots) : ~FitsRequest(returned.snapshots[i])

\* an attempt that fails because the snapshots it sampled are of another
\* round stage than the one asked for
C23_WitnessNoMatch ==
    /\ returned.pc = "generated"
    /\ returned.generated.code = "NO_POLICY_ACTION"
    /\ returned.snapshots # <<>>
    /\ \A i \in 1 .. Len(returned.snapshots) :
            returned.snapshots[i].game_stage = returned.params.target_game_stage

\* a pass of the play-forward loop, round limit and overshoot test
\* included, that hands the loop the state it started from
RoundRepeats ==
    /\ returned.pc = "round"
    /\ compute_game_stage(state) # returned.params.target_game_stage
    /\ state.round_number <= 10
    /\ RoundStep(state, returned) = [state |-> state, call |-> [returned EXCEPT !.pc = "stage"]]

\* C24: the play-forward loop of generate_scenario stops: no pass of it
\* leaves the state, the generators and the loop's tests as they were
\* before the pass.
C24_PlayForwardStops == ~RoundRepeats

\* the attempts a returned call made: [seed, generated] each
Attempts == returned.attempts

Passes(k) ==
    /\ Attempts[k].generated.code = "OK"
    /\ apply_quality_filters(Attempts[k].generated.new_state, returned.filter_config,
                             returned.order) = "OK"

C25_WitnessSecondPasses ==
    /\ returned.pc = "returned"
    /\ Len(Attempts) = 2
    /\ Attempts[1].generated.code = "OK"
    /\ Passes(2)

\* the first attempt generated, the second did not: the first one's state
\* is returned
C25_WitnessFallbackToFirst ==
    /\ returned.pc = "returned"
    /\ Len(Attempts) = 2
    /\ Attempts[1].generated.code = "OK"
    /\ Attempts[2].generated.code # "OK"
    /\ returned.result = Attempts[1].generated

----------------------------------------------------------------------------
(* apply_quality_filters *)

Filtered == last.op = "apply_quality_filters"

\* the first of the four tests the list fails, or "OK"
FirstFailingFilter(actions, config) ==
    LET floors == Cardinality({i \in 1 .. Len(actions) : actions[i].destination = Floor})
    IN  IF Len(actions) < config.min_legal_actions THEN "TOO_FEW_ACTIONS"
        ELSE IF Cardinality({actions[i].destination : i \in 1 .. Len(actions)})
                    < config.min_unique_destinations
        THEN "DEGENERATE_OPTIONS"
        ELSE IF config.require_non_floor_option
                /\ \A i \in 1 .. Len(actions) : actions[i].destination = Floor
        THEN "NO_NON_FLOOR_OPTION"
        ELSE IF floors * 100 > config.max_floor_ratio * Len(actions)
        THEN "TOO_MANY_FLOOR_ACTIONS"
        ELSE "OK"

\* C26: apply_quality_filters accepts a state exactly when the legal actions
\* of its active seat are at least min_legal_actions, have at least
\* min_unique_destinations distinct destinations, include a non-Floor action
\* when require_non_floor_option is set, and are Floor actions for a share of
\* at most max_floor_ratio; a rejected state gets the error of the first of
\* these tests that fails, and the state is not modified.
C26_QualityFilters ==
    Filtered =>
        /\ returned.result
                = FirstFailingFilter(
                    list_legal_actions(before, before.active_player_id, returned.order),
                    returned.config)
        /\ input = before
        /\ state = before

\* a list of Floor actions only fails the non-Floor test before the ratio test
C26_Witness ==
    /\ Filtered
    /\ returned.result = "NO_NON_FLOOR_OPTION"
    /\ returned.config.max_floor_ratio < 100

C26_WitnessAccepted ==
    /\ Filtered
    /\ returned.result = "OK"
    /\ returned.config.min_legal_actions = 6

C26_WitnessRatio ==
    /\ Filtered
    /\ returned.result = "TOO_MANY_FLOOR_ACTIONS"
    /\ returned.config.require_non_floor_option

C26_WitnessDegenerate == Filtered /\ returned.result = "DEGENERATE_OPTIONS"

C26_WitnessTooFew == Filtered /\ returned.result = "TOO_FEW_ACTIONS"

C26_WitnessEmptyList ==
    /\ Filtered
    /\ returned.result = "OK"
    /\ list_legal_actions(before, before.active_player_id, returned.order) = <<>>

----------------------------------------------------------------------------
(* The order of list_legal_actions *)

\* the place of an action in the order factories 0..4 then centre, colours
\* Blue, Yellow, Red, Black, White, rows 0..4 then Floor
CanonicalPlace(action) ==
    LET source_place == IF action.source.kind = "Factory" THEN action.source.idx
                        ELSE FACTORY_COUNT_2P
        color_place == CHOOSE i \in 1 .. 5 : ALL_COLORS[i] = action.color
        destination_place == IF action.destination.kind = "PatternLine"
                             THEN action.destination.row ELSE PATTERN_LINE_COUNT
    IN  (source_place * 6 + color_place) * 6 + destination_place

\* C27: the list returned by list_legal_actions is ordered by source
\* (factory 0, factories 1..4, then the centre), within a source by colour
\* in the order Blue, Yellow, Red, Black, White, and within a colour by
\* PatternLine rows 0..4 and then Floor, whatever the run of the program.
C27_CanonicalOrder ==
    Listed =>
        \A i, j \in 1 .. Len(listed.actions) :
            i < j => CanonicalPlace(listed.actions[i]) < CanonicalPlace(listed.actions[j])

----------------------------------------------------------------------------
(* calculate_wall_tile_score *)

WallScored == last.op = "calculate_wall_tile_score"

\* C28: for a true cell of a wall calculate_wall_tile_score returns 1 when
\* the unbroken runs of true cells through the cell along its row (H) and
\* along its column (V) are both 1, and otherwise (H if H > 1 else 0)
\* + (V if V > 1 else 0); the result is between 1 and 10.
C28_WallTileScore ==
    WallScored =>
        /\ returned.score = AdjacencyScore(input.wall, input.row, input.col)
        /\ 1 <= returned.score /\ returned.score <= 10

\* a run of 2 that a false cell ends although a true cell lies beyond it,
\* crossed by a run of 3
C28_Witness ==
    /\ WallScored
    /\ Cardinality(RowRun(input.wall, input.row, input.col)) = 2
    /\ Cardinality({c \in Cols : input.wall[input.row][c]}) = 3
    /\ Cardinality(ColumnRun(input.wall, input.row, input.col)) = 3
    /\ returned.score = 5

\* a tile whose four neighbours are false on an otherwise full wall
C28_WitnessIsolated ==
    /\ WallScored
    /\ returned.score = 1
    /\ \E r \in Rows, c \in Cols : r # input.row /\ c # input.col /\ input.wall[r][c]
    /\ \E c \in Cols : c # input.col /\ input.wall[input.row][c]

C28_WitnessFullRowAndColumn == WallScored /\ returned.score = 10

C28_WitnessRowOnly ==
    /\ WallScored
    /\ Cardinality(RowRun(input.wall, input.row, input.col)) = 4
    /\ returned.score = 4

----------------------------------------------------------------------------
(* The floor penalty *)

FloorPenalised == last.op \in {"calculate_floor_penalty", "calculate_floor_penalty_for_player"}

\* the sum of the first n entries of FLOOR_PENALTIES
RECURSIVE FirstPenalties(_)
FirstPenalties(n) == IF n = 0 THEN 0 ELSE FirstPenalties(n - 1) + FLOOR_PENALTIES[n]

OccupiedSlots(floor_line) ==
    Min(7, Len(floor_line.tiles) + (IF floor_line.has_first_player_token THEN 1 ELSE 0))

\* C29: for every floor line the penalty is the sum of the first
\* min(7, tiles + (1 if the token is present)) entries of
\* [-1,-1,-2,-2,-2,-3,-3], never below -14, and calculate_floor_penalty and
\* calculate_floor_penalty_for_player return the same value.
C29_FloorPenalty ==
    FloorPenalised =>
        /\ returned.penalty = FirstPenalties(OccupiedSlots(input.player.floor_line))
        /\ returned.penalty >= -14
        /\ calculate_floor_penalty(input.player.floor_line)
                = calculate_floor_penalty_for_player(input.player)

\* the token and 7 tiles or more: the token has slot 0 and the last tiles
\* have none
C29_Witness ==
    /\ last.op = "calculate_floor_penalty_for_player"
    /\ input.player.floor_line.has_first_player_token
    /\ Len(input.player.floor_line.tiles) >= 7
    /\ returned.penalty = -14

C29_WitnessScoring ==
    /\ last.op = "calculate_floor_penalty"
    /\ input.player.floor_line.has_first_player_token
    /\ Len(input.player.floor_line.tiles) = 2
    /\ returned.penalty = -4

C29_WitnessTokenOnly ==
    /\ FloorPenalised
    /\ input.player.floor_line.has_first_player_token
    /\ input.player.floor_line.tiles = <<>>
    /\ returned.penalty = -1

----------------------------------------------------------------------------
(* compute_grade *)

GradeComputed == last.op = "compute_grade"

Magnitude(delta_ev) == IF delta_ev < 0 THEN -delta_ev ELSE delta_ev

GradeRank(grade) ==
    CASE grade = "Excellent" -> 0 [] grade = "Good" -> 1 [] grade = "Okay" -> 2
      [] grade = "Miss" -> 3

\* C30: compute_grade depends only on |delta_ev| and is monotone in it:
\* |delta| <= 0.25 gives Excellent, 0.25 < |delta| <= 1.0 Good,
\* 1.0 < |delta| <= 2.5 Okay, anything larger Miss.
C30_GradeByMagnitude ==
    GradeComputed =>
        /\ LET m == Magnitude(input.delta_ev)
           IN  returned.grade = (IF m <= 25 THEN "Excellent"
                                 ELSE IF m <= 100 THEN "Good"
                                 ELSE IF m <= 250 THEN "Okay"
                                 ELSE "Miss")
        /\ \A other \in -MaxDelta .. MaxDelta :
              /\ Magnitude(other) = Magnitude(input.delta_ev)
                    => compute_grade(other) = returned.grade
              /\ Magnitude(other) <= Magnitude(input.delta_ev)
                    => GradeRank(compute_grade(other)) <= GradeRank(returned.grade)

\* a negative delta on a boundary
C30_Witness ==
    /\ GradeComputed
    /\ input.delta_ev = -100
    /\ returned.grade = "Good"

C30_WitnessExcellent == GradeComputed /\ input.delta_ev = 25 /\ returned.grade = "Excellent"

C30_WitnessOkay == GradeComputed /\ input.delta_ev = -250 /\ returned.grade = "Okay"

C30_WitnessMiss == GradeComputed /\ input.delta_ev = 251 /\ returned.grade = "Miss"

----------------------------------------------------------------------------
(* The wall pattern *)

\* C31: get_wall_color and get_wall_column_for_color are mutual inverses on
\* rows 0..4: the column of the colour of a cell is the cell's column, the
\* colour of the column of a colour is that colour, and each colour has
\* exactly one cell in every row.
C31_WallPatternInverse ==
    /\ last.op = "get_wall_color" =>
            /\ returned.color \in Colors
            /\ get_wall_column_for_color(input.row, returned.color) = input.col
            /\ Cardinality({col \in Cols : get_wall_color(input.row, col) = returned.color}) = 1
    /\ last.op = "get_wall_column_for_color" =>
            /\ returned.col \in Cols
            /\ get_wall_color(input.row, returned.col) = input.color
            /\ Cardinality({col \in Cols : get_wall_color(input.row, col) = input.color}) = 1

\* a cell of a rotated row: Blue of row 3 is in column 3
C31_Witness ==
    /\ last.op = "get_wall_column_for_color"
    /\ input.row = 3 /\ input.color = "Blue"
    /\ returned.col = 3

C31_WitnessColor ==
    /\ last.op = "get_wall_color"
    /\ input.row = 4 /\ input.col = 0
    /\ returned.color = "Yellow"

----------------------------------------------------------------------------
(* Deadlock in simulate_rollout *)

\* C32: simulate_rollout never fails with Deadlock on a state that satisfies
\* the global invariants, whether a colour of count zero is absent from a
\* factory or centre map or stored there as a zero entry.
C32_NoDeadlock ==
    (Rolled /\ GlobalInvariants(before)) => returned.result.code # "DEADLOCK"

----------------------------------------------------------------------------
(* Tile conservation through resolve_end_of_round *)

\* no factory and not the centre holds a tile; zero entries may be stored
NothingOnTable(s) ==
    /\ \A i \in FactoryIds : count_tiles_in_multiset(s.factories[i]) = 0
    /\ count_tiles_in_multiset(s.center.tiles) = 0

\* C33: resolve_end_of_round on a state that holds 100 tiles, satisfies the
\* pattern-line invariants and has all factories and the centre empty of
\* tiles returns a state that again holds exactly 100 tiles, whether the
\* game ended or the factories were refilled.
C33_ConservedThroughEndOfRound ==
    (ResolvedOk /\ count_total_tiles(before) = 100 /\ PatternLineInvariants(before)
        /\ NothingOnTable(before))
        => count_total_tiles(state) = 100

\* the factories were refilled from a bag that the lid had to fill up
C33_Witness ==
    /\ ResolvedOk
    /\ count_total_tiles(before) = 100 /\ PatternLineInvariants(before)
    /\ NothingOnTable(before)
    /\ count_tiles_in_multiset(before.bag) < 20
    /\ before.players[0].floor_line.tiles # <<>>
    /\ state.round_number = before.round_number + 1
    /\ count_tiles_in_multiset(state.factories[4]) = 4

\* the game ended: a wall row is complete and nothing was dealt
C33_WitnessGameEnd ==
    /\ ResolvedOk
    /\ count_total_tiles(before) = 100 /\ PatternLineInvariants(before)
    /\ NothingOnTable(before)
    /\ ~check_game_end(before)
    /\ check_game_end(state)
    /\ NothingOnTable(state)
    /\ state.players[0].floor_line.tiles # before.players[0].floor_line.tiles

----------------------------------------------------------------------------
(* Corrupted pattern lines in resolve_end_of_round *)

\* complete lines that have no colour
ColourlessCompleteLines(s) ==
    {<<p, r>> \in Seats \X Rows :
        /\ s.players[p].pattern_lines[r].count_filled = s.players[p].pattern_lines[r].capacity
        /\ s.players[p].pattern_lines[r].color = NoColor}

\* complete lines whose wall cell is already true
StaleCompleteLines(s) ==
    {<<p, r>> \in Seats \X Rows :
        /\ s.players[p].pattern_lines[r].count_filled = s.players[p].pattern_lines[r].capacity
        /\ s.players[p].pattern_lines[r].color # NoColor
        /\ s.players[p].wall[r][get_wall_column_for_color(r, s.players[p].pattern_lines[r].color)]}

\* C34: resolve_end_of_round never aborts on a corrupted pattern line: a
\* complete line whose wall cell is already true is reset without placing
\* or scoring, and a complete line that has no colour makes the call return
\* an INVARIANT_VIOLATION error value.
C34_CorruptLinesNeverAbort ==
    last.op = "resolve_end_of_round" =>
        /\ ColourlessCompleteLines(before) # {} => last.code = "INVARIANT_VIOLATION"
        /\ (ResolvedOk /\ ColourlessCompleteLines(before) = {}) =>
                \A cell \in StaleCompleteLines(before) :
                    state.players[cell[1]].pattern_lines[cell[2]]
                        = NewPatternLine(cell[2])

----------------------------------------------------------------------------
(* What a successful apply_action leaves alone *)

\* C35: a successful apply_action flips active_player_id and otherwise
\* changes only the chosen source, the centre, and the acting seat's
\* destination pattern line and floor line: bag, lid, round_number, both
\* scores, both walls, every other factory, the acting seat's other pattern
\* lines and the whole board of the other seat are unchanged.
C35_ApplyActionFrame ==
    AppliedOk =>
        LET p == before.active_player_id
            q == 1 - p
        IN  /\ state.active_player_id = q
            /\ state.bag = before.bag
            /\ state.lid = before.lid
            /\ state.round_number = before.round_number
            /\ state.players[p].score = before.players[p].score
            /\ state.players[p].wall = before.players[p].wall
            /\ state.players[q] = before.players[q]
            /\ \A i \in FactoryIds :
                    last.action.source # Factory(i) => state.factories[i] = before.factories[i]
            /\ \A r \in Rows :
                    last.action.destination # PatternLine(r) =>
                        state.players[p].pattern_lines[r] = before.players[p].pattern_lines[r]

\* seat 1 took from a factory into a pattern line, with tiles left over for
\* the floor
C35_Witness ==
    /\ AppliedOk
    /\ before.active_player_id = 1
    /\ last.action.source.kind = "Factory"
    /\ last.action.destination.kind = "PatternLine"
    /\ state.center.tiles # before.center.tiles
    /\ state.players[1].floor_line # before.players[1].floor_line
    /\ before.players[0].floor_line.tiles # <<>>

\* seat 0 took the token with tiles of the centre
C35_WitnessToken ==
    /\ AppliedOk
    /\ before.active_player_id = 0
    /\ last.action.source = Center
    /\ before.center.has_first_player_token
    /\ state.players[0].floor_line.has_first_player_token
    /\ state.factories = before.factories

----------------------------------------------------------------------------
(* GreedyPolicy *)

GreedySelected == last.op = "GreedyPolicy_select_action"

\* C36: GreedyPolicy returns a member of the legal-action list it was given
\* (none only for an empty list), and it returns a Floor action only when
\* the list holds no PatternLine action, whatever the tile counts.
C36_GreedyPrefersPatternLines ==
    GreedySelected =>
        /\ returned.selected.some <=> returned.legal_actions # <<>>
        /\ returned.selected.some =>
            /\ returned.selected.action \in Range(returned.legal_actions)
            /\ returned.selected.action.destination = Floor =>
                    \A a \in Range(returned.legal_actions) : a.destination = Floor

----------------------------------------------------------------------------
(* The first-player token *)

TokenFlagCount(s) ==
    (IF s.center.has_first_player_token THEN 1 ELSE 0)
        + (IF s.players[0].floor_line.has_first_player_token THEN 1 ELSE 0)
        + (IF s.players[1].floor_line.has_first_player_token THEN 1 ELSE 0)

\* C37: in every state reached from the generator's initial state by
\* successful apply_action and resolve_end_of_round calls, exactly one of
\* the three first-player-token flags (centre, seat 0's floor line, seat 1's
\* floor line) is true.
C37_ExactlyOneToken == TokenFlagCount(state) = 1

\* the end of a round took the token back from seat 1
C37_Witness ==
    /\ ResolvedOk
    /\ before.players[1].floor_line.has_first_player_token
    /\ state.center.has_first_player_token

C37_WitnessTaken ==
    /\ AppliedOk
    /\ state.players[1].floor_line.has_first_player_token
    /\ ~state.center.has_first_player_token

----------------------------------------------------------------------------
(* Drafting terminates *)

\* the number of tiles on the factories and the centre
TableTiles(s) ==
    SumOver([i \in FactoryIds |-> count_tiles_in_multiset(s.factories[i])], FactoryIds)
        + count_tiles_in_multiset(s.center.tiles)

\* no factory and not the centre stores a count of zero
NoZeroEntries(s) ==
    /\ \A i \in FactoryIds : \A c \in DOMAIN s.factories[i] : s.factories[i][c] > 0
    /\ \A c \in DOMAIN s.center.tiles : s.center.tiles[c] > 0

\* C38: every successful apply_action lowers the number of tiles on the
\* table by at least one, and from a state with T tiles on the table and no
\* zero-count entries simulate_rollout with max_actions >= T resolves the
\* round after at most T actions and returns Ok.
C38_DraftingTerminates ==
    /\ AppliedOk => TableTiles(state) <= TableTiles(before) - 1
    /\ (Rolled /\ NoZeroEntries(before)
            /\ returned.config.max_actions >= TableTiles(before)) =>
            /\ returned.result.code = "OK"
            /\ returned.result.actions_simulated <= TableTiles(before)

\* C39 as stated: apply_action returns Ok exactly for the actions that
\* list_legal_actions returns for the active seat.
C39_OkIffListed ==
    last.op = "apply_action" =>
        (last.code = "OK" <=>
            last.action \in Range(list_legal_actions(before, before.active_player_id, ALL_COLORS)))

\* C39 amended: the validator of apply_action passes exactly the actions that
\* list_legal_actions returns for the active seat: an action outside the list
\* is never accepted, an action of the list is never answered with an error,
\* and it is accepted whenever the state holds 100 tiles; the only other
\* outcome for a listed action is the abort of the conservation check of a
\* build with debug assertions.
C39_ValidatorMatchesEnumerator ==
    last.op = "apply_action" =>
        LET legal == \E order \in IterationOrders :
                        last.action \in Range(list_legal_actions(before, before.active_player_id, order))
        IN  /\ last.code = "OK" => legal
            /\ legal => last.code \in {"OK", "PANIC"}
            /\ (legal /\ count_total_tiles(before) = 100) => last.code = "OK"
            /\ validate_action(before, last.action) = "OK" <=> legal

\* a listed action was accepted and an action outside the list was rejected
\* for its destination
C39_Witness ==
    /\ AppliedOk
    /\ last.action.destination.kind = "PatternLine"
    /\ last.action \in Range(list_legal_actions(before, before.active_player_id, ALL_COLORS))
    /\ \E c \in Colors : before.players[before.active_player_id].wall[0][get_wall_column_for_color(0, c)]

C39_WitnessRejected ==
    /\ last.op = "apply_action"
    /\ last.code = "WALL_CONFLICT"
    /\ last.action \notin Range(list_legal_actions(before, before.active_player_id, ALL_COLORS))

\* the pattern lines of a board that are complete
CompleteLines(player) ==
    Cardinality({row \in Rows :
        player.pattern_lines[row].count_filled = player.pattern_lines[row].capacity})

\* the board of the evaluated seat immediately after `action`
BoardAfter(action) == apply_action(before, action, FALSE).new_state.players[returned.player_id]

\* evaluate_best_move returned Ok
BestMoveReturned == Evaluated /\ returned.result.code = "OK"

\* expected_floor_penalty and expected_tiles_to_floor of the features are 0
NoFloorExpected(features) ==
    /\ features.expected_floor_penalty = F64(0, 0)
    /\ features.expected_tiles_to_floor = F64(0, 0)

C40_WitnessGraded ==
    /\ Graded
    /\ returned.params.rollouts_per_action >= 1
    /\ returned.user_action.destination.kind = "Floor"
    /\ returned.result.user_features.value.expected_completions = F64(1, 0)

\* no rollout ran and a complete line went uncounted
C40_WitnessNoRollouts ==
    /\ BestMoveReturned
    /\ returned.params.rollouts_per_action = 0
    /\ CompleteLines(BoardAfter(returned.result.best_action)) >= 1

====
